---- MODULE Spec2Model ----
(***************************************************************************)
(* Model of the WSAP bridge command queue                                  *)
(* (src/wsap/bridges/starbound_bridge_server.py) and of the Nexus hub      *)
(* (src/wsap/nexus/server.py, src/wsap/nexus/core.py).                     *)
(***************************************************************************)
EXTENDS Integers, Sequences, FiniteSets, TLC

(***************************************************************************)
(* Bounds of the bridge model.                                             *)
(***************************************************************************)
NumCallers == 2
MaxCmds == 2
MaxPosts == 2

Callers == 1..NumCallers
CmdTypes == {"observe", "act", "reset"}
GameResults == {"r1", "r2"}
\* an id that submit() never issued (any non-empty string that is no drawn uuid)
StrayId == 0
NoId == -1
None == "None"
TimeoutError == "Timeout waiting for game response"
ResultLost == "Result lost"
KeyErrorRaised == "KeyError"
\* get_next_command() returning None
NoCommand == [id |-> NoId, type |-> None]

VARIABLES
    pending_commands,   \* CommandQueue.pending_commands: FIFO of command dicts
    results,            \* CommandQueue.results: cmd_id -> result
    result_events,      \* CommandQueue.result_events: cmd_id -> the Event of a caller
    event,              \* the flag of the threading.Event each submit() created
    pc,                 \* position of each submit() call
    cmd_id,             \* the local cmd_id of each submit() call
    ret,                \* the value each submit() call returned
    command,            \* the "type" of the command dict each submit() was given
    uuid_next,          \* number of uuid4 values drawn so far, plus one
    handler,            \* the request the HTTPServer thread is handling
    last_poll,          \* the value of the last get_next_command()
    poll_pending,       \* history: commands pending when that call was made
    enqueued,           \* history: ids in the order of pending_commands.put
    fetched,            \* history: ids in the order get_next_command returned them
    posted,             \* history: cmd_id -> results passed to submit_result
    signalled,          \* history: ids whose handle submit_result found and set
    delivered           \* history: one record per return of submit()

(***************************************************************************)
(* Bounds and inputs of the Nexus hub model.                               *)
(***************************************************************************)
MaxHubOps == 4
MaxClock == 1

\* skill levels are kept in tenths: Scale stands for the level 1.0
Scale == 10
AgentIds == {"a1", "a2"}
AgentNames == {"Nova", "Rex"}
GameIds == {"crafter", "starbound"}
GameStatus == {"available", "busy", "offline", "maintenance"}
SKILL_DOMAINS == {"exploration", "resource_management", "combat", "crafting",
                  "survival", "social", "puzzle_solving", "planning", "adaptation"}
UpdateDomains == {"resource_management", "stealth"}
SkillDeltas == {-20, 4, 20}
StepInputs == {-10, 0, 50}
AchievementInputs == {<<>>, <<"collect_wood">>, <<"collect_wood", "place_table">>}
Unknown == "unknown"
ExitReasons == {"voluntary"}

VARIABLES
    games,              \* NexusServer.games: game_id -> GameInfo
    agents,             \* NexusServer.agents: agent_id -> AgentIdentity
    active_sessions,    \* NexusServer.active_sessions: agent_id -> game_id
    sessions,           \* NexusServer.sessions: session_id -> session info
    clock,              \* datetime.now() in whole seconds
    n_ops,              \* number of hub operations performed so far
    hub_last            \* history: the last hub operation and what it returned

hubVars == <<games, agents, active_sessions, sessions, clock, n_ops, hub_last>>

bridgeVars == <<pending_commands, results, result_events, event, pc, cmd_id, ret, command,
                uuid_next, handler, last_poll, poll_pending, enqueued, fetched, posted,
                signalled, delivered>>

(***************************************************************************)
(* One call of NexusServer._calculate_bonuses                              *)
(***************************************************************************)
VARIABLES
    bonus_call          \* the arguments of the call and, once returned, its value

(***************************************************************************)
(* Requests in the hands of NexusHandler, statement by statement           *)
(***************************************************************************)
NumHubRequests == 2
HubRequests == 1..NumHubRequests

VARIABLES
    hub_req,            \* the request each connection sent: op, agent, game
    hub_pc,             \* position of its handler ("idle": not being handled)
    hub_tmp,            \* the active_agents value its handler has read
    hub_expected,       \* history: game_id -> count after the updates applied in turn
    hub_seen            \* history: what the last GET /games found

requestVars == <<hub_req, hub_pc, hub_tmp, hub_expected, hub_seen>>

(***************************************************************************)
(* Game adapters: StarboundAdapter over the bridge, CrafterAdapter         *)
(***************************************************************************)
MaxAdapterCalls == 3

VARIABLES
    sb_step,              \* StarboundAdapter._step
    sb_last_observation,  \* StarboundAdapter._last_observation
    cr_step,              \* CrafterAdapter._step
    cr_last_info,         \* CrafterAdapter._last_info: "empty" ({}) or "full"
    n_calls,              \* adapter calls made so far
    adapter_last          \* history: the last adapter call and how it ended

adapterVars == <<sb_step, sb_last_observation, cr_step, cr_last_info, n_calls,
                 adapter_last>>

(***************************************************************************)
(* One call of OllamaAgent._parse_action                                   *)
(***************************************************************************)
VARIABLES
    parse_call          \* the reply parsed and, once the call has ended, its outcome

(***************************************************************************)
(* One run_episode call, iteration by iteration                            *)
(***************************************************************************)
MaxEpisodeSteps == 3
MaxMultiSteps == 2
MaxMultiGames == 2

VARIABLES
    episode,            \* run_episode's locals, its position and what it returned
    http_last,          \* history: the last request NexusHandler took and its answer
    avatars,            \* avatar_id -> that Avatar's state and bound_agent
    avatar_last,        \* history: the last jack_in / jack_out call
    roster_call,        \* one AvatarRoster.can_create_new call: the roster, its value
    package,            \* the TransitPackage a caller of transit_out kept
    suggest_call,       \* one _suggest_games call: games, identity, its value
    multi               \* MultiGameAgent: its fields, run()'s locals and position

libVars == <<episode, http_last, avatars, avatar_last, roster_call, package,
             suggest_call, multi>>

\* everything outside the hub and outside this group
baseVars == <<bridgeVars, bonus_call, requestVars, adapterVars, parse_call>>

extVars == <<bonus_call, requestVars, adapterVars, parse_call, libVars>>

vars == <<bridgeVars, hubVars, extVars>>

(***************************************************************************)
(* dict helpers                                                            *)
(***************************************************************************)
DictSet(d, k, v) == [x \in DOMAIN d \cup {k} |-> IF x = k THEN v ELSE d[x]]
DictDel(d, k) == [x \in DOMAIN d \ {k} |-> d[x]]
DictGet(d, k, default) == IF k \in DOMAIN d THEN d[k] ELSE default
EmptyDict == [x \in {} |-> None]
Range(seq) == {seq[k] : k \in 1..Len(seq)}

\* str(uuid.uuid4()): the n-th draw is a value no earlier draw produced
NewIdReused(n) == IF n > 1 THEN n - 1 ELSE n
NewId(n) == n

InFlight(c) == pc[c] \in {"registered", "waiting", "signalled", "timedout"}
PostedFor(i) == DictGet(posted, i, <<>>)
NumPosted == LET RECURSIVE Sum(_)
                 Sum(S) == IF S = {} THEN 0
                           ELSE LET i == CHOOSE x \in S : TRUE
                                IN Len(posted[i]) + Sum(S \ {i})
             IN Sum(DOMAIN posted)

BridgeInit ==
    /\ pending_commands = <<>>
    /\ results = EmptyDict
    /\ result_events = EmptyDict
    /\ event = [c \in Callers |-> FALSE]
    /\ pc = [c \in Callers |-> "idle"]
    /\ cmd_id = [c \in Callers |-> NoId]
    /\ ret = [c \in Callers |-> None]
    /\ command = [c \in Callers |-> None]
    /\ uuid_next = 1
    /\ handler = 0
    /\ last_poll = NoCommand
    /\ poll_pending = 0
    /\ enqueued = <<>>
    /\ fetched = <<>>
    /\ posted = EmptyDict
    /\ signalled = {}
    /\ delivered = {}

(***************************************************************************)
(* CommandQueue: the steps of submit(), get_next_command(), submit_result() *)
(* Each "with self.lock" block is one step; Queue.put / get_nowait are      *)
(* atomic by the Queue's own mutex.                                         *)
(***************************************************************************)

\* submit(), lines 35-41: draw the id, create the Event, register it under the lock
DoRegister(c, type) ==
    /\ pc[c] \in {"idle", "done"}
    /\ uuid_next <= MaxCmds
    /\ LET id == NewId(uuid_next)
       IN /\ cmd_id' = [cmd_id EXCEPT ![c] = id]
          /\ result_events' = DictSet(result_events, id, c)
    /\ uuid_next' = uuid_next + 1
    /\ event' = [event EXCEPT ![c] = FALSE]
    /\ command' = [command EXCEPT ![c] = type]
    /\ ret' = [ret EXCEPT ![c] = None]
    /\ pc' = [pc EXCEPT ![c] = "registered"]
    /\ UNCHANGED <<pending_commands, results, last_poll, poll_pending, enqueued,
                   fetched, posted, signalled, delivered>>

\* submit(), line 44: pending_commands.put(command)
DoPut(c) ==
    /\ pc[c] = "registered"
    /\ pending_commands' = Append(pending_commands,
                                  [id |-> cmd_id[c], type |-> command[c]])
    /\ enqueued' = Append(enqueued, cmd_id[c])
    /\ command' = [command EXCEPT ![c] = None]
    /\ pc' = [pc EXCEPT ![c] = "waiting"]
    /\ UNCHANGED <<results, result_events, event, cmd_id, ret, uuid_next,
                   last_poll, poll_pending, fetched, posted, signalled, delivered>>

\* submit(), line 47: event.wait(timeout) returns True once the flag is set,
\* and False when the timeout expires with the flag still clear
DoWait(c) ==
    /\ pc[c] = "waiting"
    /\ pc' = [pc EXCEPT ![c] = IF event[c] THEN "signalled" ELSE "timedout"]
    /\ UNCHANGED <<pending_commands, results, result_events, event, cmd_id, ret,
                   command, uuid_next, last_poll, poll_pending, enqueued, fetched, posted,
                   signalled, delivered>>

\* results.pop(cmd_id, {"error": "Result lost"})
PopResultLost(res, id) == ResultLost
PopResult(res, id) == DictGet(res, id, ResultLost)

Delivery(c, value) ==
    [id |-> cmd_id[c], caller |-> c, value |-> value,
     nposted |-> Len(PostedFor(cmd_id[c]))]

\* submit(), lines 48-51: pop the result and delete the handle under the lock, return
DoTakeResult(c) ==
    /\ pc[c] = "signalled"
    /\ LET value == IF cmd_id[c] \in DOMAIN result_events
                    THEN PopResult(results, cmd_id[c])
                    ELSE KeyErrorRaised
       IN /\ ret' = [ret EXCEPT ![c] = value]
          /\ delivered' = delivered \cup {Delivery(c, value)}
    /\ results' = DictDel(results, cmd_id[c])
    /\ result_events' = DictDel(result_events, cmd_id[c])
    /\ pc' = [pc EXCEPT ![c] = "done"]
    /\ UNCHANGED <<pending_commands, event, cmd_id, command, uuid_next, last_poll, poll_pending,
                   enqueued, fetched, posted, signalled>>

\* submit(), lines 53-55: the handle map after the timeout branch
TimeoutCleanupKept(events, id) == events
TimeoutCleanup(events, id) == IF id \in DOMAIN events THEN DictDel(events, id) ELSE events

\* submit(), lines 52-56: delete the handle under the lock, return the timeout error
DoTimeoutReturn(c) ==
    /\ pc[c] = "timedout"
    /\ result_events' = TimeoutCleanup(result_events, cmd_id[c])
    /\ ret' = [ret EXCEPT ![c] = TimeoutError]
    /\ delivered' = delivered \cup {Delivery(c, TimeoutError)}
    /\ pc' = [pc EXCEPT ![c] = "done"]
    /\ UNCHANGED <<pending_commands, results, event, cmd_id, command, uuid_next,
                   last_poll, poll_pending, enqueued, fetched, posted, signalled>>

\* pending_commands.get_nowait(): the index of the element the Queue hands out
DequeueLast(q) == Len(q)
DequeueIndex(q) == 1

RemoveAt(q, i) == SubSeq(q, 1, i - 1) \o SubSeq(q, i + 1, Len(q))

\* get_next_command(), lines 58-63
DoGetNextCommand ==
    /\ poll_pending' = Len(pending_commands)
    /\ IF pending_commands = <<>>
       THEN /\ last_poll' = NoCommand
            /\ UNCHANGED <<pending_commands, fetched>>
       ELSE LET i == DequeueIndex(pending_commands)
            IN /\ last_poll' = pending_commands[i]
               /\ pending_commands' = RemoveAt(pending_commands, i)
               /\ fetched' = Append(fetched, pending_commands[i].id)
    /\ UNCHANGED <<results, result_events, event, pc, cmd_id, ret, command,
                   uuid_next, enqueued, posted, signalled, delivered>>

\* submit_result(), line 68: self.results[cmd_id] = result
StoreResultFirstWins(res, id, r) == IF id \in DOMAIN res THEN res ELSE DictSet(res, id, r)
StoreResultDropped(res, id, r) == res
StoreResult(res, id, r) == DictSet(res, id, r)

\* submit_result(), lines 69-70: the callers whose Event the call sets
WokenAll(events, id) == {events[i] : i \in DOMAIN events}
Woken(events, id) == IF id \in DOMAIN events THEN {events[id]} ELSE {}

\* submit_result(), lines 65-70
DoSubmitResult(id, r) ==
    /\ NumPosted < MaxPosts
    /\ results' = StoreResult(results, id, r)
    /\ event' = [c \in Callers |-> event[c] \/ c \in Woken(result_events, id)]
    /\ signalled' = IF id \in DOMAIN result_events THEN signalled \cup {id}
                    ELSE signalled
    /\ posted' = DictSet(posted, id, Append(PostedFor(id), r))
    /\ UNCHANGED <<pending_commands, result_events, pc, cmd_id, ret, command,
                   uuid_next, last_poll, poll_pending, enqueued, fetched, delivered>>

\* ids a client of submit_result can name: issued ones and one never issued
PostableIds == {NewId(n) : n \in 1..(uuid_next - 1)} \cup {StrayId}

(***************************************************************************)
(* Nexus hub: NexusServer and AgentIdentity                                *)
(***************************************************************************)
Min(a, b) == IF a < b THEN a ELSE b
Max(a, b) == IF a > b THEN a ELSE b

\* GameInfo as POST /games and main() build it: active_agents defaults to 0
GameInfo(status) == [status |-> status, active_agents |-> 0]

NoResult == [kind |-> None]
LastOp(op, agent, game, ok, pre, flag, result) ==
    [op |-> op, agent |-> agent, game |-> game, ok |-> ok, pre |-> pre,
     flag |-> flag, result |-> result]

\* the hub as main() starts it: NexusServer() with the two example games registered
HubInit ==
    /\ games = [g \in GameIds |-> GameInfo("available")]
    /\ agents = EmptyDict
    /\ active_sessions = EmptyDict
    /\ sessions = EmptyDict
    /\ clock = 0
    /\ n_ops = 0
    /\ hub_last = LastOp(None, None, None, TRUE, 0, FALSE, NoResult)

\* AgentIdentity(agent_id, name) with __post_init__: every standard domain at 0.0
NewIdentity(name) ==
    [name |-> name,
     total_steps |-> 0,
     games_visited |-> <<>>,
     achievements |-> <<>>,
     skills |-> [d \in SKILL_DOMAINS |-> 0]]

\* AgentIdentity.update_skill
UpdateSkillUnclamped(skills, domain, delta) ==
    DictSet(skills, domain, DictGet(skills, domain, 0) + delta)
UpdateSkill(skills, domain, delta) ==
    DictSet(skills, domain, Min(Scale, Max(0, DictGet(skills, domain, 0) + delta)))

\* AgentIdentity.add_game_visit
AddGameVisit(visited, game_id) ==
    IF game_id \in Range(visited) THEN visited ELSE Append(visited, game_id)



\* NexusServer.register_game, lines 44-47 (POST /games builds the GameInfo)
RegisterGame(game_id, status) ==
    /\ n_ops < MaxHubOps
    /\ n_ops' = n_ops + 1
    /\ games' = DictSet(games, game_id, GameInfo(status))
    /\ hub_last' = LastOp("register_game", None, game_id, TRUE, 0, FALSE, NoResult)
    /\ UNCHANGED <<agents, active_sessions, sessions, clock>>
    /\ UNCHANGED <<bridgeVars, extVars>>

\* NexusServer.unregister_game, lines 49-53
UnregisterGame(game_id) ==
    /\ n_ops < MaxHubOps
    /\ n_ops' = n_ops + 1
    /\ games' = IF game_id \in DOMAIN games THEN DictDel(games, game_id) ELSE games
    /\ hub_last' = LastOp("unregister_game", None, game_id, TRUE, 0, FALSE, NoResult)
    /\ UNCHANGED <<agents, active_sessions, sessions, clock>>
    /\ UNCHANGED <<bridgeVars, extVars>>

\* NexusServer.register_agent, lines 63-71: the agents map after the call
RegisteredAlways(ags, agent_id, name) == DictSet(ags, agent_id, NewIdentity(name))
Registered(ags, agent_id, name) ==
    IF agent_id \in DOMAIN ags THEN ags ELSE DictSet(ags, agent_id, NewIdentity(name))

RegisterAgent(agent_id, name) ==
    /\ n_ops < MaxHubOps
    /\ n_ops' = n_ops + 1
    /\ agents' = Registered(agents, agent_id, name)
    /\ hub_last' = LastOp("register_agent", agent_id, None, TRUE, 0,
                          agent_id \in DOMAIN agents, agents'[agent_id])
    /\ UNCHANGED <<games, active_sessions, sessions, clock>>
    /\ UNCHANGED <<bridgeVars, extVars>>

\* TransitPackage built by transit_out, lines 87-100
TransitPackage(agent_id, identity, game_id, reason) ==
    [agent_id |-> agent_id,
     agent_name |-> identity.name,
     total_steps |-> identity.total_steps,
     games_visited |-> identity.games_visited,
     achievements |-> identity.achievements,
     skills |-> identity.skills,
     origin_game |-> game_id,
     exit_reason |-> reason]

\* transit_out, lines 107-108: the game's agent count after the exit
ExitCountKept(n) == n
ExitCount(n) == Max(0, n - 1)

\* transit_out, lines 79-81 and 106-108: the games map the call leaves
ExitGamesUnchecked(gs, ags, agent_id, game_id) ==
    IF game_id \in DOMAIN gs
    THEN [gs EXCEPT ![game_id].active_agents = ExitCount(@)]
    ELSE gs
ExitGames(gs, ags, agent_id, game_id) ==
    IF agent_id \notin DOMAIN ags THEN gs
    ELSE IF game_id \in DOMAIN gs
    THEN [gs EXCEPT ![game_id].active_agents = ExitCount(@)]
    ELSE gs

\* NexusServer.transit_out, lines 77-111, called as operation op with the agents
\* map ags: what the call does to the hub
TransitOutHub(ags, agent_id, game_id, reason, op) ==
    /\ n_ops < MaxHubOps
    /\ n_ops' = n_ops + 1
    /\ games' = ExitGames(games, ags, agent_id, game_id)
    /\ IF agent_id \notin DOMAIN ags
       THEN \* raise ValueError
            /\ hub_last' = LastOp(op, agent_id, game_id, FALSE, 0, FALSE,
                                  [kind |-> "ValueError"])
            /\ agents' = ags
            /\ UNCHANGED active_sessions
       ELSE LET visited == AddGameVisit(ags[agent_id].games_visited, game_id)
                identity == [ags[agent_id] EXCEPT !.games_visited = visited]
                after_in == /\ hub_last.op = "transit_in"
                            /\ hub_last.ok
                            /\ hub_last.agent = agent_id
                            /\ hub_last.game = game_id
            IN /\ agents' = [ags EXCEPT ![agent_id] = identity]
               /\ active_sessions' = IF agent_id \in DOMAIN active_sessions
                                     THEN DictDel(active_sessions, agent_id)
                                     ELSE active_sessions
               /\ hub_last' = LastOp(op, agent_id, game_id, TRUE,
                                     IF after_in THEN hub_last.pre ELSE 0, after_in,
                                     TransitPackage(agent_id, identity, game_id, reason))
    /\ UNCHANGED <<sessions, clock>>

TransitOutFrom(ags, agent_id, game_id, reason, op) ==
    /\ TransitOutHub(ags, agent_id, game_id, reason, op)
    /\ UNCHANGED <<bridgeVars, extVars>>

TransitOut(agent_id, game_id, reason) ==
    TransitOutFrom(agents, agent_id, game_id, reason, "transit_out")

\* session_id = f"sess_{agent_id}_{game_id}_{now:%H%M%S}", line 130
SessionId(agent_id, game_id, now) == <<agent_id, game_id, now>>

\* _calculate_bonuses, lines 159-170: bonus_maps, each game's items in order
BonusMaps ==
    [crafter |->
        <<[skill |-> "resource_management", bonus |-> "inventory_bonus"],
          [skill |-> "survival", bonus |-> "health_bonus"],
          [skill |-> "crafting", bonus |-> "recipe_hint"]>>,
     starbound |->
        <<[skill |-> "exploration", bonus |-> "scanner_range"],
          [skill |-> "combat", bonus |-> "weapon_tier"],
          [skill |-> "social", bonus |-> "price_modifier"]>>]

\* the lambdas of bonus_maps on a level s in tenths; int() truncates, and
\* price_modifier (1.0 - s * 0.2) is kept in hundredths
Calc(bonus, s) ==
    CASE bonus = "inventory_bonus" -> (s * 3) \div Scale
      [] bonus = "health_bonus" -> (s * 2) \div Scale
      [] bonus = "recipe_hint" -> s * 10 > 3 * Scale
      [] bonus = "scanner_range" -> 1 + ((s * 5) \div Scale)
      [] bonus = "weapon_tier" -> 1 + ((s * 2) \div Scale)
      [] bonus = "price_modifier" -> 10 * Scale - 2 * s

\* _calculate_bonuses, line 174: skill in skills and skills[skill] > 0.1
BonusEmittedAtThreshold(skills, skill) ==
    skill \in DOMAIN skills /\ skills[skill] * 10 >= Scale
BonusEmitted(skills, skill) ==
    skill \in DOMAIN skills /\ skills[skill] * 10 > Scale

\* _calculate_bonuses, lines 173-175: the loop over bonus_maps[game_id].items()
RECURSIVE AddBonuses(_, _, _)
AddBonuses(bonuses, table, skills) ==
    IF table = <<>> THEN bonuses
    ELSE LET skill == Head(table).skill
             bonus_name == Head(table).bonus
         IN AddBonuses(IF BonusEmitted(skills, skill)
                       THEN DictSet(bonuses, bonus_name, Calc(bonus_name, skills[skill]))
                       ELSE bonuses,
                       Tail(table), skills)

\* NexusServer._calculate_bonuses, lines 154-177
CalculateBonuses(skills, game_id) ==
    IF game_id \in DOMAIN BonusMaps
    THEN AddBonuses(EmptyDict, BonusMaps[game_id], skills)
    ELSE EmptyDict

\* transit_in, lines 115-124: the error a call returns, None when it goes ahead
TransitInErrorAnyStatus(gs, ags, agent_id, game_id) ==
    IF game_id \notin DOMAIN gs THEN "Unknown game"
    ELSE IF agent_id \notin DOMAIN ags THEN "Unknown agent"
    ELSE None
TransitInError(gs, ags, agent_id, game_id) ==
    IF game_id \notin DOMAIN gs THEN "Unknown game"
    ELSE IF gs[game_id].status # "available" THEN "Game not available"
    ELSE IF agent_id \notin DOMAIN ags THEN "Unknown agent"
    ELSE None

\* NexusServer.transit_in, lines 113-152
TransitIn(agent_id, game_id) ==
    /\ n_ops < MaxHubOps
    /\ n_ops' = n_ops + 1
    /\ LET error == TransitInError(games, agents, agent_id, game_id)
       IN IF error # None
          THEN /\ hub_last' = LastOp("transit_in", agent_id, game_id, FALSE, 0, FALSE,
                                     [kind |-> error])
               /\ UNCHANGED <<games, active_sessions, sessions>>
          ELSE LET bonuses == CalculateBonuses(agents[agent_id].skills, game_id)
                   session_id == SessionId(agent_id, game_id, clock)
               IN /\ sessions' = DictSet(sessions, session_id,
                                         [agent_id |-> agent_id, game_id |-> game_id,
                                          bonuses |-> bonuses])
                  /\ active_sessions' = DictSet(active_sessions, agent_id, game_id)
                  /\ games' = [games EXCEPT ![game_id].active_agents = @ + 1]
                  /\ hub_last' = LastOp("transit_in", agent_id, game_id, TRUE,
                                        games[game_id].active_agents, FALSE,
                                        [kind |-> "session", session_id |-> session_id,
                                         bonuses |-> bonuses])
    /\ UNCHANGED <<agents, clock>>
    /\ UNCHANGED <<bridgeVars, extVars>>

\* update_agent_stats, lines 189-191: update_skill for every item of skill_updates
RECURSIVE ApplySkillUpdates(_, _)
ApplySkillUpdates(skills, updates) ==
    IF DOMAIN updates = {} THEN skills
    ELSE LET d == CHOOSE x \in DOMAIN updates : TRUE
         IN ApplySkillUpdates(UpdateSkill(skills, d, updates[d]), DictDel(updates, d))

\* update_agent_stats, lines 193-202: one Achievement per reported name
NewAchievementsUntagged(names, game_id) ==
    [k \in 1..Len(names) |-> [name |-> names[k], game_origin |-> Unknown]]
NewAchievements(names, game_id) ==
    [k \in 1..Len(names) |-> [name |-> names[k], game_origin |-> game_id]]

\* update_agent_stats, lines 183-202: the agents map the call leaves
StatsApplied(ags, agent_id, steps, achievements, skill_updates) ==
    IF agent_id \notin DOMAIN ags
    THEN ags
    ELSE LET game_id == DictGet(active_sessions, agent_id, Unknown)
             identity == ags[agent_id]
         IN [ags EXCEPT ![agent_id] =
               [identity EXCEPT
                  !.total_steps = @ + steps,
                  !.skills = ApplySkillUpdates(@, skill_updates),
                  !.achievements = @ \o NewAchievements(achievements, game_id)]]

\* NexusServer.update_agent_stats, lines 179-202
UpdateAgentStats(agent_id, steps, achievements, skill_updates) ==
    /\ n_ops < MaxHubOps
    /\ n_ops' = n_ops + 1
    /\ agents' = StatsApplied(agents, agent_id, steps, achievements, skill_updates)
    /\ hub_last' = LastOp("update_agent_stats", agent_id, None, TRUE, 0, FALSE,
                          NoResult)
    /\ UNCHANGED <<games, active_sessions, sessions, clock>>
    /\ UNCHANGED <<bridgeVars, extVars>>

\* do_POST, lines 341-350: the agents map transit_out is called on, with
\* update_agent_stats (lines 341-348) run before it
AgentsAtExitStale(ags, agent_id, stats) == ags
AgentsAtExit(ags, agent_id, stats) ==
    StatsApplied(ags, agent_id, stats.steps, stats.achievements, stats.skills)

\* NexusHandler.do_POST, lines 335-360: POST /transit/exit with "stats" in the
\* body applies update_agent_stats and then transit_out
TransitExit(agent_id, game_id, reason, stats) ==
    TransitOutFrom(AgentsAtExit(agents, agent_id, stats),
                   agent_id, game_id, reason, "transit_exit")

\* a second of wall-clock time passes
Tick ==
    /\ clock < MaxClock
    /\ clock' = clock + 1
    /\ UNCHANGED <<games, agents, active_sessions, sessions, n_ops, hub_last>>
    /\ UNCHANGED <<bridgeVars, extVars>>

SkillUpdateInputs ==
    UNION {[S -> SkillDeltas] : S \in SUBSET UpdateDomains}

\* the stats a caller reports: steps, achievements, one skill, or all at once
StatsInputs ==
    {[steps |-> st, achievements |-> <<>>, skills |-> EmptyDict] : st \in StepInputs}
    \cup {[steps |-> 0, achievements |-> ach, skills |-> EmptyDict] :
            ach \in AchievementInputs}
    \cup {[steps |-> 0, achievements |-> <<>>, skills |-> su] :
            su \in {f \in SkillUpdateInputs : Cardinality(DOMAIN f) = 1}}
    \cup {[steps |-> 50, achievements |-> <<"collect_wood">>,
           skills |-> [d \in UpdateDomains |-> 4]]}

\* the "stats" of a POST /transit/exit body
ExitStatsInputs ==
    {[steps |-> st, achievements |-> <<"collect_wood">>, skills |-> EmptyDict] :
        st \in StepInputs \ {0}}

\* the "stats" MultiGameAgent._exit_game reports, with skill gains
HttpExitStatsInputs ==
    ExitStatsInputs
    \cup {[steps |-> 50, achievements |-> <<"collect_wood", "place_table">>,
           skills |-> [d \in {"crafting"} |-> 4]]}

(***************************************************************************)
(* NexusHttpSpec: NexusHandler's requests taken one statement at a time.   *)
(* NexusServer.start() runs HTTPServer.serve_forever() on one thread, which *)
(* takes the next request only when the handler of the previous one has    *)
(* returned.                                                               *)
(***************************************************************************)
NoRequest == [op |-> None, agent |-> None, game |-> None]

HubRequestInputs ==
    {[op |-> "register_agent", agent |-> a, game |-> None] : a \in AgentIds}
    \cup {[op |-> o, agent |-> a, game |-> g] :
            o \in {"transit_in", "transit_out"}, a \in AgentIds, g \in GameIds}
    \cup {[op |-> "get_games", agent |-> None, game |-> None]}

RequestInit ==
    /\ hub_req = [r \in HubRequests |-> NoRequest]
    /\ hub_pc = [r \in HubRequests |-> "idle"]
    /\ hub_tmp = [r \in HubRequests |-> 0]
    /\ hub_expected = [g \in GameIds |-> 0]
    /\ hub_seen = [made |-> FALSE, torn |-> FALSE, sessions |-> 0, counted |-> 0]

\* a transit_in between its sessions[session_id] assignment (line 131) and the
\* end of game.active_agents += 1 (line 143)
Torn ==
    \E r \in HubRequests :
        hub_req[r].op = "transit_in" /\ hub_pc[r] \in {"track", "read", "write"}

\* serve_forever() of a plain HTTPServer: the next request is taken when no
\* handler is running (a ThreadingHTTPServer would take it at any time)
HubServerFreeThreaded == TRUE
HubServerFree == \A r \in HubRequests : hub_pc[r] = "idle"

GoTo(r, label) == hub_pc' = [hub_pc EXCEPT ![r] = label]

\* the server thread reads a request and calls do_GET or do_POST
HubAccept(r, req) ==
    /\ HubServerFree
    /\ hub_pc[r] = "idle"
    /\ n_ops < MaxHubOps
    /\ n_ops' = n_ops + 1
    /\ hub_req' = [hub_req EXCEPT ![r] = req]
    /\ GoTo(r, "start")
    /\ UNCHANGED <<games, agents, active_sessions, sessions, clock, hub_last>>
    /\ UNCHANGED <<hub_tmp, hub_expected, hub_seen, bonus_call, bridgeVars, adapterVars, parse_call, libVars>>

\* do_POST /agents, lines 305-309: register_agent
HubRegisterAgent(r) ==
    /\ hub_pc[r] = "start"
    /\ hub_req[r].op = "register_agent"
    /\ agents' = Registered(agents, hub_req[r].agent, "Agent")
    /\ GoTo(r, "idle")
    /\ UNCHANGED <<games, active_sessions, sessions, clock, n_ops, hub_last>>
    /\ UNCHANGED <<hub_req, hub_tmp, hub_expected, hub_seen, bonus_call, bridgeVars, adapterVars, parse_call, libVars>>

\* do_GET /games, lines 274-276: list_games() and to_dict() of every game
HubGetGames(r) ==
    /\ hub_pc[r] = "start"
    /\ hub_req[r].op = "get_games"
    /\ hub_seen' = [made |-> TRUE,
                    torn |-> Torn,
                    sessions |-> Cardinality(DOMAIN sessions),
                    counted |-> games["crafter"].active_agents
                                  + games["starbound"].active_agents]
    /\ GoTo(r, "idle")
    /\ UNCHANGED hubVars
    /\ UNCHANGED <<hub_req, hub_tmp, hub_expected, bonus_call, bridgeVars, adapterVars, parse_call, libVars>>

\* transit_in, lines 115-127: the three checks and _calculate_bonuses
HubInValidate(r) ==
    /\ hub_pc[r] = "start"
    /\ hub_req[r].op = "transit_in"
    /\ GoTo(r, IF TransitInError(games, agents, hub_req[r].agent, hub_req[r].game) # None
              THEN "idle" ELSE "session")
    /\ UNCHANGED hubVars
    /\ UNCHANGED <<hub_req, hub_tmp, hub_expected, hub_seen, bonus_call, bridgeVars, adapterVars, parse_call, libVars>>

\* transit_in, lines 130-137: self.sessions[session_id] = {...}
HubInSession(r) ==
    /\ hub_pc[r] = "session"
    /\ LET a == hub_req[r].agent
           g == hub_req[r].game
       IN sessions' = DictSet(sessions, SessionId(a, g, clock),
                              [agent_id |-> a, game_id |-> g,
                               bonuses |-> CalculateBonuses(agents[a].skills, g)])
    /\ GoTo(r, "track")
    /\ UNCHANGED <<games, agents, active_sessions, clock, n_ops, hub_last>>
    /\ UNCHANGED <<hub_req, hub_tmp, hub_expected, hub_seen, bonus_call, bridgeVars, adapterVars, parse_call, libVars>>

\* transit_in, line 140: self.active_sessions[entry.agent_id] = entry.game_id
HubInTrack(r) ==
    /\ hub_pc[r] = "track"
    /\ active_sessions' = DictSet(active_sessions, hub_req[r].agent, hub_req[r].game)
    /\ GoTo(r, "read")
    /\ UNCHANGED <<games, agents, sessions, clock, n_ops, hub_last>>
    /\ UNCHANGED <<hub_req, hub_tmp, hub_expected, hub_seen, bonus_call, bridgeVars, adapterVars, parse_call, libVars>>

\* transit_out, lines 79-100: the check, add_game_visit and the package
HubOutValidate(r) ==
    /\ hub_pc[r] = "start"
    /\ hub_req[r].op = "transit_out"
    /\ LET a == hub_req[r].agent
       IN IF a \notin DOMAIN agents
          THEN GoTo(r, "idle") /\ UNCHANGED agents
          ELSE /\ agents' = [agents EXCEPT ![a].games_visited =
                                AddGameVisit(@, hub_req[r].game)]
               /\ GoTo(r, "clear")
    /\ UNCHANGED <<games, active_sessions, sessions, clock, n_ops, hub_last>>
    /\ UNCHANGED <<hub_req, hub_tmp, hub_expected, hub_seen, bonus_call, bridgeVars, adapterVars, parse_call, libVars>>

\* transit_out, lines 103-106: del self.active_sessions[agent_id]; the game looked up
HubOutClear(r) ==
    /\ hub_pc[r] = "clear"
    /\ active_sessions' = IF hub_req[r].agent \in DOMAIN active_sessions
                          THEN DictDel(active_sessions, hub_req[r].agent)
                          ELSE active_sessions
    /\ GoTo(r, IF hub_req[r].game \in DOMAIN games THEN "read" ELSE "idle")
    /\ UNCHANGED <<games, agents, sessions, clock, n_ops, hub_last>>
    /\ UNCHANGED <<hub_req, hub_tmp, hub_expected, hub_seen, bonus_call, bridgeVars, adapterVars, parse_call, libVars>>

\* transit_in line 143 and transit_out line 108: the load of active_agents
HubCountRead(r) ==
    /\ hub_pc[r] = "read"
    /\ hub_tmp' = [hub_tmp EXCEPT ![r] = games[hub_req[r].game].active_agents]
    /\ GoTo(r, "write")
    /\ UNCHANGED hubVars
    /\ UNCHANGED <<hub_req, hub_expected, hub_seen, bonus_call, bridgeVars, adapterVars, parse_call, libVars>>

\* transit_in line 143 and transit_out line 108: the store of the new count
HubCountWrite(r) ==
    /\ hub_pc[r] = "write"
    /\ LET g == hub_req[r].game
           entering == hub_req[r].op = "transit_in"
       IN /\ games' = [games EXCEPT ![g].active_agents =
                          IF entering THEN hub_tmp[r] + 1 ELSE ExitCount(hub_tmp[r])]
          /\ hub_expected' = [hub_expected EXCEPT ![g] =
                                 IF entering THEN @ + 1 ELSE ExitCount(@)]
    /\ GoTo(r, "idle")
    /\ UNCHANGED <<agents, active_sessions, sessions, clock, n_ops, hub_last>>
    /\ UNCHANGED <<hub_req, hub_tmp, hub_seen, bonus_call, bridgeVars, adapterVars, parse_call, libVars>>

NexusHttpNext ==
    \/ \E r \in HubRequests, req \in HubRequestInputs : HubAccept(r, req)
    \/ \E r \in HubRequests : HubRegisterAgent(r)
    \/ \E r \in HubRequests : HubGetGames(r)
    \/ \E r \in HubRequests : HubInValidate(r)
    \/ \E r \in HubRequests : HubInSession(r)
    \/ \E r \in HubRequests : HubInTrack(r)
    \/ \E r \in HubRequests : HubOutValidate(r)
    \/ \E r \in HubRequests : HubOutClear(r)
    \/ \E r \in HubRequests : HubCountRead(r)
    \/ \E r \in HubRequests : HubCountWrite(r)

(***************************************************************************)
(* AdapterSpec: calls of observe(), act() and reset() on a StarboundAdapter *)
(* and a CrafterAdapter. What the bridge does with a request, and what     *)
(* crafter.Env.step does, are inputs.                                      *)
(***************************************************************************)
\* requests.post/get: answered, ConnectionError (refused), or another
\* requests exception (read timeout, HTTP error status)
BridgeOutcomes == {"ok", "refused", "timeout", "error_value"}
\* the request did not bring back an answer of the bridge
TransportFailed(outcome) == outcome \in {"refused", "timeout"}

\* some names of STARBOUND_ACTIONS and of CRAFTER_ACTIONS
StarboundActionNames == {"move_left", "jump", "interact", "wait"}
CrafterActionNames == {"noop", "move_left", "do", "sleep"}
\* the names a caller passes to act(): one both games know, one none knows
ActionInputs == {"move_left", "fly"}
EnvOutcomes == {"stepped", "raised"}

NoObservation == [source |-> None, step |-> 0]
\* StarboundAdapter._empty_observation, lines 342-349
EmptyObservation(step) == [source |-> "disconnected", step |-> step]

AdapterCall(adapter, op, action, failed, outcome, error, success, message, fwd, obs) ==
    [adapter |-> adapter, op |-> op, action |-> action, failed |-> failed,
     outcome |-> outcome, error |-> error, success |-> success,
     message |-> message, forwarded |-> fwd, observation |-> obs]

AdapterInit ==
    /\ sb_step = 0
    /\ sb_last_observation = NoObservation
    /\ cr_step = 0
    /\ cr_last_info = "empty"
    /\ n_calls = 0
    /\ adapter_last = AdapterCall(None, None, None, FALSE, None, None, FALSE, None,
                                  FALSE, NoObservation)

\* StarboundAdapter._request, lines 179-195: the exception it raises, if any
RequestError(outcome) ==
    CASE outcome = "ok" -> None
      [] outcome = "refused" -> "ConnectionError"
      [] outcome = "timeout" -> "RuntimeError"
      [] outcome = "error_value" -> None

\* the observation lines 297-301 fall back to: self._last_observation or
\* self._empty_observation()
LastOrEmpty(last, step) == IF last # NoObservation THEN last ELSE EmptyObservation(step)

\* observe, lines 219-271: every field is read with data.get(key, default), so
\* an answer without game state ({"error": ...}, sent with status 200 by the
\* bridge's send_json(result)) gives an Observation made of the defaults
ObservationSource(outcome) == IF outcome = "error_value" THEN "defaults" ELSE "bridge"

\* StarboundAdapter.observe, lines 207-274, with _last_observation = last and
\* _step = step: how the call ends, what it returns, and _last_observation after
SbObserveResult(last, step, outcome) ==
    LET error == RequestError(outcome)
        obs == [source |-> ObservationSource(outcome), step |-> step]
    IN IF error = "ConnectionError"
       THEN [outcome |-> "returned", error |-> None,
             observation |-> LastOrEmpty(last, step), last |-> last]
       ELSE IF error # None
       THEN [outcome |-> "raised", error |-> error,
             observation |-> NoObservation, last |-> last]
       ELSE [outcome |-> "returned", error |-> None, observation |-> obs, last |-> obs]

AdapterStep ==
    /\ n_calls < MaxAdapterCalls
    /\ n_calls' = n_calls + 1
    /\ UNCHANGED <<bridgeVars, hubVars, bonus_call, requestVars, parse_call, libVars>>

\* StarboundAdapter.observe
SbObserve(o_obs) ==
    /\ AdapterStep
    /\ LET r == SbObserveResult(sb_last_observation, sb_step, o_obs)
       IN /\ sb_last_observation' = r.last
          /\ adapter_last' = AdapterCall("starbound", "observe", None, TransportFailed(o_obs),
                                         r.outcome, r.error, FALSE, None, FALSE,
                                         r.observation)
    /\ UNCHANGED <<sb_step, cr_step, cr_last_info>>

\* StarboundAdapter.act, lines 276-324
SbAct(name, o_act, o_obs) ==
    /\ AdapterStep
    /\ sb_step' = sb_step + 1
    /\ IF name \notin StarboundActionNames
       THEN LET r == SbObserveResult(sb_last_observation, sb_step + 1, o_obs)
            IN /\ sb_last_observation' = r.last
               /\ adapter_last' =
                    IF r.outcome = "raised"
                    THEN AdapterCall("starbound", "act", name, TRUE, "raised", r.error,
                                     FALSE, None, FALSE, NoObservation)
                    ELSE AdapterCall("starbound", "act", name, TransportFailed(o_obs),
                                     "returned", None, FALSE, "Unknown action", FALSE,
                                     r.observation)
       ELSE LET error == RequestError(o_act)
                r == SbObserveResult(sb_last_observation, sb_step + 1, o_obs)
            IN IF error = "ConnectionError"
               THEN /\ UNCHANGED sb_last_observation
                    /\ adapter_last' =
                         AdapterCall("starbound", "act", name, TRUE, "returned", None,
                                     FALSE, "Cannot connect", FALSE,
                                     LastOrEmpty(sb_last_observation, sb_step + 1))
               ELSE IF error # None
               THEN /\ UNCHANGED sb_last_observation
                    /\ adapter_last' =
                         AdapterCall("starbound", "act", name, TRUE, "raised", error,
                                     FALSE, None, FALSE, NoObservation)
               ELSE /\ sb_last_observation' = r.last
                    /\ adapter_last' =
                         IF r.outcome = "raised"
                         THEN AdapterCall("starbound", "act", name, TRUE, "raised",
                                          r.error, FALSE, None, TRUE, NoObservation)
                         ELSE AdapterCall("starbound", "act", name,
                                          TransportFailed(o_obs), "returned", None,
                                          o_act = "ok", name, TRUE, r.observation)
    /\ UNCHANGED <<cr_step, cr_last_info>>

\* StarboundAdapter.reset, lines 326-336
SbReset(o_reset, o_obs) ==
    /\ AdapterStep
    /\ sb_step' = 0
    /\ LET error == RequestError(o_reset)
           r == SbObserveResult(sb_last_observation, 0, o_obs)
       IN IF error \notin {None, "ConnectionError"}
          THEN /\ UNCHANGED sb_last_observation
               /\ adapter_last' =
                    AdapterCall("starbound", "reset", None, TRUE, "raised", error,
                                FALSE, None, FALSE, NoObservation)
          ELSE /\ sb_last_observation' = r.last
               /\ adapter_last' =
                    AdapterCall("starbound", "reset", None,
                                TransportFailed(o_reset) \/ TransportFailed(o_obs),
                                r.outcome, r.error,
                                FALSE, None, FALSE, r.observation)
    /\ UNCHANGED <<cr_step, cr_last_info>>

\* CrafterAdapter.observe, lines 105-158, with _last_info = info
CrObserveResult(info, step) ==
    IF info = "empty"
    THEN [outcome |-> "raised", error |-> "KeyError", observation |-> NoObservation]
    ELSE [outcome |-> "returned", error |-> None,
          observation |-> [source |-> "crafter", step |-> step]]

\* CrafterAdapter.observe
CrObserve ==
    /\ AdapterStep
    /\ LET r == CrObserveResult(cr_last_info, cr_step)
       IN adapter_last' = AdapterCall("crafter", "observe", None, FALSE, r.outcome,
                                      r.error, FALSE, None, FALSE, r.observation)
    /\ UNCHANGED <<sb_step, sb_last_observation, cr_step, cr_last_info>>

\* CrafterAdapter.reset, lines 215-229
CrReset ==
    /\ AdapterStep
    /\ cr_step' = 0
    /\ cr_last_info' = "full"
    /\ LET r == CrObserveResult("full", 0)
       IN adapter_last' = AdapterCall("crafter", "reset", None, FALSE, r.outcome,
                                      r.error, FALSE, None, FALSE, r.observation)
    /\ UNCHANGED <<sb_step, sb_last_observation>>

\* CrafterAdapter.act, lines 160-213
CrAct(name, env) ==
    /\ AdapterStep
    /\ IF name \notin CrafterActionNames
       THEN LET r == CrObserveResult(cr_last_info, cr_step)
            IN /\ adapter_last' =
                    IF r.outcome = "raised"
                    THEN AdapterCall("crafter", "act", name, FALSE, "raised", r.error,
                                     FALSE, None, FALSE, NoObservation)
                    ELSE AdapterCall("crafter", "act", name, FALSE, "returned", None,
                                     FALSE, "Unknown action", FALSE, r.observation)
               /\ UNCHANGED <<cr_step, cr_last_info>>
       ELSE IF env = "raised"
       THEN /\ adapter_last' = AdapterCall("crafter", "act", name, FALSE, "raised",
                                           "EnvError", FALSE, None, TRUE, NoObservation)
            /\ UNCHANGED <<cr_step, cr_last_info>>
       ELSE /\ cr_last_info' = "full"
            /\ cr_step' = cr_step + 1
            /\ adapter_last' =
                 AdapterCall("crafter", "act", name, FALSE, "returned", None, TRUE,
                             name, TRUE, CrObserveResult("full", cr_step + 1).observation)
    /\ UNCHANGED <<sb_step, sb_last_observation>>

AdapterNext ==
    \/ \E o \in BridgeOutcomes : SbObserve(o)
    \/ \E name \in ActionInputs, o1, o2 \in BridgeOutcomes : SbAct(name, o1, o2)
    \/ \E o1, o2 \in BridgeOutcomes : SbReset(o1, o2)
    \/ CrObserve
    \/ CrReset
    \/ \E name \in ActionInputs, env \in EnvOutcomes : CrAct(name, env)

(***************************************************************************)
(* ParseSpec: OllamaAgent._parse_action as a function of the LLM reply.    *)
(* A reply is its text, character by character, and what re.search and     *)
(* json.loads make of it.                                                  *)
(***************************************************************************)
MaxReplyLen == 5
Chars == {"n", "o", "p", "d", "D", " "}

\* self.action_names after initialize(), in the order of the action space
ParseActionNames == <<"noop", "do">>
Spelling(name) ==
    CASE name = "noop" -> <<"n", "o", "o", "p">>
      [] name = "do" -> <<"d", "o">>

\* re.search(r'\{[^}]+\}', response) and json.loads of the match: no match, a
\* match that is not JSON, or an object with or without an "action" value
NoJson == [kind |-> "none", action |-> None]
JsonInputs ==
    {[kind |-> "invalid", action |-> None], [kind |-> "object", action |-> None]}
    \cup {[kind |-> "object", action |-> a] : a \in {"do", "noop", "Do", "fly"}}

ReplyTexts == UNION {[1..n -> Chars] : n \in 0..MaxReplyLen}
\* a reply without braces, or a JSON part inside some text
ReplyInputs ==
    {[json |-> NoJson, text |-> t] : t \in ReplyTexts}
    \cup {[json |-> j, text |-> t] : j \in JsonInputs, t \in {<<>>, <<"d", "o">>}}

\* str.strip() and str.lower()
RECURSIVE LStrip(_)
LStrip(t) == IF t # <<>> /\ Head(t) = " " THEN LStrip(Tail(t)) ELSE t
RECURSIVE RStrip(_)
RStrip(t) ==
    IF t # <<>> /\ t[Len(t)] = " " THEN RStrip(SubSeq(t, 1, Len(t) - 1)) ELSE t
Strip(t) == RStrip(LStrip(t))
Lower(t) == [k \in 1..Len(t) |-> IF t[k] = "D" THEN "d" ELSE t[k]]

\* name in response_lower
Contains(t, sub) ==
    \E i \in 0..(Len(t) - Len(sub)) : SubSeq(t, i + 1, i + Len(sub)) = sub

Returned(name) == [kind |-> "action", name |-> name, error |-> None]
Raised(error) == [kind |-> "raise", name |-> None, error |-> error]

\* _parse_action, lines 185-186: no action found
ParseFallbackNoop == Returned("noop")
ParseFallback == Raised("ValueError")

\* _parse_action, lines 181-183: the first name of action_names found in the text
RECURSIVE FindName(_, _)
FindName(names, lower) ==
    IF names = <<>> THEN ParseFallback
    ELSE IF Contains(lower, Spelling(Head(names))) THEN Returned(Head(names))
    ELSE FindName(Tail(names), lower)

\* OllamaAgent._parse_action, lines 149-186
ParseAction(reply) ==
    IF reply.json = NoJson /\ Strip(reply.text) = <<>>
    THEN Raised("ValueError")
    ELSE IF reply.json # NoJson
    THEN IF reply.json.kind = "invalid" THEN Raised("ValueError")
         ELSE IF reply.json.action = None THEN Raised("KeyError")
         ELSE IF reply.json.action \in Range(ParseActionNames)
         THEN Returned(reply.json.action)
         ELSE Raised("ValueError")
    ELSE LET lower == Lower(Strip(reply.text))
         IN IF \E name \in Range(ParseActionNames) : Spelling(name) = lower
            THEN Returned(CHOOSE name \in Range(ParseActionNames) : Spelling(name) = lower)
            ELSE FindName(ParseActionNames, lower)

NoParseCall == [reply |-> [json |-> NoJson, text |-> <<>>], returned |-> FALSE,
                result |-> Raised(None)]

ParseInit ==
    \E reply \in ReplyInputs :
        parse_call = [reply |-> reply, returned |-> FALSE, result |-> Raised(None)]

ApplyParseAction ==
    /\ ~parse_call.returned
    /\ parse_call' = [parse_call EXCEPT !.returned = TRUE,
                                        !.result = ParseAction(parse_call.reply)]
    /\ UNCHANGED <<bridgeVars, hubVars, bonus_call, requestVars, adapterVars, libVars>>

(***************************************************************************)
(* run_episode: the step loop over one adapter and one agent               *)
(***************************************************************************)
RewardInputs == {-1, 0, 1}
EpisodeAchievementInputs == {<<>>, <<"collect_wood">>}
NoStats == [steps |-> -1, total_reward |-> 0, achievements |-> <<>>]

EpisodeActionInputs == {"noop", "move_right"}

\* the observation adapter.reset() returns, and the one act() returns in
\* iteration i of the loop
ResetObservation == 0
ActObservation(i) == i + 1

\* an ActionResult; the value of one that does not exist
ActionResult(reward, achievements, done, observation) ==
    [reward |-> reward, achievements |-> achievements, done |-> done,
     observation |-> observation]
NoActionResult == ActionResult(0, <<>>, FALSE, -1)

\* one call run_episode made on the agent or the adapter: its argument
\* (observation, action or result) and what it returned
Call(fn, observation, action, result, raised) ==
    [fn |-> fn, observation |-> observation, action |-> action, result |-> result,
     raised |-> raised]

\* lines 255-257: agent.initialize, adapter.reset, agent.reset
SetupCalls ==
    <<Call("initialize", -1, None, NoActionResult, FALSE),
      Call("adapter.reset", ResetObservation, None, NoActionResult, FALSE),
      Call("agent.reset", -1, None, NoActionResult, FALSE)>>

\* the locals after lines 255-261 (initialize, reset, reset have returned)
NoEpisode == [pc |-> "off", max_steps |-> 0, i |-> 0, step |-> 0, total_reward |-> 0,
              achievements |-> <<>>, done |-> FALSE, error |-> None, returned |-> NoStats,
              observation |-> -1, calls |-> <<>>]

EpisodeInit ==
    \E max_steps \in 0..MaxEpisodeSteps :
        episode = [NoEpisode EXCEPT !.pc = "loop", !.max_steps = max_steps,
                                    !.observation = ResetObservation,
                                    !.calls = SetupCalls]

\* line 286: observation = result.observation
NextObservationStale(observation, result) == observation
NextObservation(observation, result) == result.observation

\* the for statement of line 263 has another value of range(max_steps) to take
EpisodeLooping ==
    /\ episode.pc = "loop"
    /\ ~episode.done
    /\ episode.i < episode.max_steps

\* decide() or act() raises inside the loop: nothing in run_episode catches it, so
\* the call ends with the exception and no return value
EpisodeError(ep, error) == [ep EXCEPT !.pc = "raised", !.step = ep.i, !.error = error]

\* line 265: agent.decide(observation) raises (ValueError, KeyError, requests error)
EpisodeDecideRaises ==
    /\ EpisodeLooping
    /\ episode' = [EpisodeError(episode, "decide") EXCEPT
                     !.calls = Append(@, Call("decide", episode.observation, None,
                                              NoActionResult, TRUE))]
    /\ UNCHANGED <<baseVars, hubVars, http_last, avatars, avatar_last, roster_call, package, suggest_call, multi>>

\* line 268: adapter.act(action) raises
EpisodeActRaises(action) ==
    /\ EpisodeLooping
    /\ episode' = [EpisodeError(episode, "act") EXCEPT
                     !.calls = @ \o <<Call("decide", episode.observation, action,
                                            NoActionResult, FALSE),
                                       Call("act", -1, action, NoActionResult, TRUE)>>]
    /\ UNCHANGED <<baseVars, hubVars, http_last, avatars, avatar_last, roster_call, package, suggest_call, multi>>

\* lines 263-289: one iteration in which decide, act and reflect return
EpisodeIterate(action, reward, achievements, done) ==
    /\ EpisodeLooping
    /\ LET result == ActionResult(reward, achievements, done, ActObservation(episode.i))
       IN episode' = [episode EXCEPT
                        !.step = episode.i,
                        !.i = episode.i + 1,
                        !.total_reward = @ + reward,
                        !.achievements = @ \o achievements,
                        !.done = done,
                        !.observation = NextObservation(@, result),
                        !.calls = @ \o <<Call("decide", episode.observation, action,
                                               NoActionResult, FALSE),
                                          Call("act", -1, action, result, FALSE),
                                          Call("reflect", -1, None, result, FALSE)>>]
    /\ UNCHANGED <<baseVars, hubVars, http_last, avatars, avatar_last, roster_call, package, suggest_call, multi>>

\* lines 291-301: the loop is over (break, or range exhausted)
EpisodeReturn ==
    /\ episode.pc = "loop"
    /\ episode.done \/ episode.i >= episode.max_steps
    /\ episode' = [episode EXCEPT !.pc = "returned",
                                  !.returned = [steps |-> episode.step + 1,
                                                total_reward |-> episode.total_reward,
                                                achievements |-> episode.achievements]]
    /\ UNCHANGED <<baseVars, hubVars, http_last, avatars, avatar_last, roster_call, package, suggest_call, multi>>

EpisodeNext ==
    \/ EpisodeDecideRaises
    \/ \E action \in EpisodeActionInputs : EpisodeActRaises(action)
    \/ \E action \in EpisodeActionInputs, reward \in RewardInputs,
          achievements \in EpisodeAchievementInputs, done \in BOOLEAN :
          EpisodeIterate(action, reward, achievements, done)
    \/ EpisodeReturn

(***************************************************************************)
(* NexusHandler: the answers of do_GET and of POST /transit/exit           *)
(***************************************************************************)
NoHttp == [route |-> None, agent |-> None, game |-> None, unknown |-> FALSE,
           raised |-> FALSE, status |-> 0, body |-> None, stats |-> None]

\* _send_json(data, status), lines 262-267; the handler returned
HttpAnswer(route, agent, game, unknown, status, body) ==
    [route |-> route, agent |-> agent, game |-> game, unknown |-> unknown,
     raised |-> FALSE, status |-> status, body |-> body, stats |-> None]

\* an exception left do_GET / do_POST: nothing was sent
HttpRaised(route, agent, game, unknown) ==
    [route |-> route, agent |-> agent, game |-> game, unknown |-> unknown,
     raised |-> TRUE, status |-> 0, body |-> None, stats |-> None]

\* a game id outside main()'s two games (and outside bonus_maps)
OtherGame == "tetris"

\* the ids a client may put in a path or body
HttpGameInputs == GameIds \cup {OtherGame}

\* do_GET, lines 278-284: GET /games/{game_id}
HttpGetGame(game_id) ==
    /\ http_last' = IF game_id \in DOMAIN games
                    THEN HttpAnswer("GET /games/", None, game_id, FALSE, 200, "game")
                    ELSE HttpAnswer("GET /games/", None, game_id, TRUE, 404, "error")
    /\ UNCHANGED <<baseVars, hubVars, episode, avatars, avatar_last, roster_call, package, suggest_call, multi>>

\* do_GET, lines 286-292: GET /agents/{agent_id}
HttpGetAgent(agent_id) ==
    /\ http_last' = IF agent_id \in DOMAIN agents
                    THEN HttpAnswer("GET /agents/", agent_id, None, FALSE, 200, "agent")
                    ELSE HttpAnswer("GET /agents/", agent_id, None, TRUE, 404, "error")
    /\ UNCHANGED <<baseVars, hubVars, episode, avatars, avatar_last, roster_call, package, suggest_call, multi>>

\* do_GET, lines 294-297, with get_nexus_observation, lines 204-215:
\* GET /nexus/{agent_id}; _send_json(obs) sends every obs with its default status
HttpGetNexus(agent_id) ==
    /\ http_last' = IF agent_id \in DOMAIN agents
                    THEN HttpAnswer("GET /nexus/", agent_id, None, FALSE, 200, "observation")
                    ELSE HttpAnswer("GET /nexus/", agent_id, None, TRUE, 200, "error")
    /\ UNCHANGED <<baseVars, hubVars, episode, avatars, avatar_last, roster_call, package, suggest_call, multi>>

\* do_POST, lines 335-360: POST /transit/exit with "stats" in the body; the
\* ValueError of transit_out is caught nowhere in the handler
HttpTransitExit(agent_id, game_id, reason, stats) ==
    /\ TransitOutHub(AgentsAtExit(agents, agent_id, stats),
                     agent_id, game_id, reason, "transit_exit")
    /\ http_last' = [IF agent_id \in DOMAIN agents
                     THEN HttpAnswer("POST /transit/exit", agent_id, game_id, FALSE, 200, "exit")
                     ELSE HttpRaised("POST /transit/exit", agent_id, game_id, TRUE)
                       EXCEPT !.stats = stats]
    /\ UNCHANGED <<baseVars, episode, avatars, avatar_last, roster_call, package, suggest_call, multi>>

(***************************************************************************)
(* Avatar and AvatarRoster (nexus/core.py)                                 *)
(***************************************************************************)
AvatarIds == {"av1", "av2"}
AvatarState == {"unbound", "bound", "dormant", "suspended", "destroyed"}
\* jack_out's documented modes and one it does not know
ModeInputs == {"dormant", "suspend", "despawn", "logout"}

\* Avatar(avatar_id, game_id): dataclass defaults, lines 321-322
NewAvatar == [state |-> "unbound", bound_agent |-> None]

NoAvatarCall == [op |-> None, avatar |-> None, arg |-> None, pre |-> NewAvatar]

AvatarInit ==
    /\ avatars = [v \in AvatarIds |-> NewAvatar]
    /\ avatar_last = NoAvatarCall

\* Avatar.jack_in, lines 345-349
JackIn(avatar_id, agent_id) ==
    /\ avatars' = [avatars EXCEPT ![avatar_id] = [state |-> "bound",
                                                  bound_agent |-> agent_id]]
    /\ avatar_last' = [op |-> "jack_in", avatar |-> avatar_id, arg |-> agent_id,
                       pre |-> avatars[avatar_id]]
    /\ UNCHANGED <<baseVars, hubVars, episode, http_last, roster_call, package, suggest_call, multi>>

\* jack_out, lines 354-359: the state for each mode; any other mode leaves it
ModeState(state, mode) ==
    IF mode = "dormant" THEN "dormant"
    ELSE IF mode = "suspend" THEN "suspended"
    ELSE IF mode = "despawn" THEN "destroyed"
    ELSE state

\* Avatar.jack_out, lines 351-360
JackOut(avatar_id, mode) ==
    /\ avatars' = [avatars EXCEPT ![avatar_id] =
                      [state |-> ModeState(avatars[avatar_id].state, mode),
                       bound_agent |-> None]]
    /\ avatar_last' = [op |-> "jack_out", avatar |-> avatar_id, arg |-> mode,
                       pre |-> avatars[avatar_id]]
    /\ UNCHANGED <<baseVars, hubVars, episode, http_last, roster_call, package, suggest_call, multi>>

AvatarNext ==
    \/ \E v \in AvatarIds, a \in AgentIds : JackIn(v, a)
    \/ \E v \in AvatarIds, mode \in ModeInputs : JackOut(v, mode)

\* AvatarRoster: the avatars list holds up to MaxRoster avatars in any state
MaxRoster == 4
MaxAvatarsInputs == 1..3
RosterInputs == UNION {[1..n -> AvatarState] : n \in 0..MaxRoster}

RECURSIVE CountAlive(_)
CountAlive(states) ==
    IF states = <<>> THEN 0
    ELSE (IF Head(states) # "destroyed" THEN 1 ELSE 0) + CountAlive(Tail(states))

\* AvatarRoster.can_create_new, lines 436-438
CanCreateNewCountsAll(states, max_avatars) == Len(states) < max_avatars
CanCreateNew(states, max_avatars) == CountAlive(states) < max_avatars

NoRosterCall == [avatars |-> <<>>, max_avatars |-> 0, returned |-> FALSE, value |-> FALSE]

RosterInit ==
    \E states \in RosterInputs, max_avatars \in MaxAvatarsInputs :
        roster_call = [avatars |-> states, max_avatars |-> max_avatars,
                       returned |-> FALSE, value |-> FALSE]

ApplyCanCreateNew ==
    /\ ~roster_call.returned
    /\ roster_call.max_avatars > 0
    /\ roster_call' = [roster_call EXCEPT
                         !.returned = TRUE,
                         !.value = CanCreateNew(roster_call.avatars,
                                                roster_call.max_avatars)]
    /\ UNCHANGED <<baseVars, hubVars, episode, http_last, avatars, avatar_last, package, suggest_call, multi>>

(***************************************************************************)
(* The TransitPackage object a caller keeps after transit_out              *)
(***************************************************************************)
\* the list and dict fields of the package the claim is about
ContainerFields == {"games_visited", "achievements", "skills"}

\* transit_out, lines 90-92: identity.<field>.copy() makes a new list or dict
\* with the elements of the identity's; without it the package would hold the
\* identity's own object
SharedWith(container, agent_id) == [ref |-> agent_id]
CopyOf(container, agent_id) == [copy |-> container]

\* what reading a field of the kept package finds
ReadField(field, name) ==
    IF "copy" \in DOMAIN field THEN field.copy ELSE agents[field.ref][name]

NoPackage == [held |-> FALSE, agent_id |-> None, total_steps |-> 0,
              containers |-> EmptyDict, at_return |-> NoResult]

\* the package object built by lines 87-100 from the returned values
PackageObject(result) ==
    [held |-> TRUE,
     agent_id |-> result.agent_id,
     total_steps |-> result.total_steps,
     containers |-> [f \in ContainerFields |-> CopyOf(result[f], result.agent_id)],
     at_return |-> result]

\* transit_out whose caller keeps the package returned (the first one it gets)
PackageTransitOut(agent_id, game_id) ==
    /\ TransitOutHub(agents, agent_id, game_id, "voluntary", "transit_out")
    /\ package' = IF agent_id \in DOMAIN agents /\ ~package.held
                  THEN PackageObject(hub_last'.result)
                  ELSE package
    /\ UNCHANGED <<baseVars, episode, http_last, avatars, avatar_last, roster_call, suggest_call, multi>>

\* the stats reported while a package is held
PackageStatsInputs ==
    {[steps |-> 50, achievements |-> <<"collect_wood">>,
      skills |-> [d \in {"stealth"} |-> 4]],
     [steps |-> 0, achievements |-> <<>>, skills |-> [d \in {"crafting"} |-> 20]]}

PackageNext ==
    \/ \E a \in AgentIds, n \in AgentNames : RegisterAgent(a, n)
    \/ \E a \in AgentIds, g \in GameIds : TransitIn(a, g)
    \/ \E a \in AgentIds, g \in GameIds : PackageTransitOut(a, g)
    \/ \E a \in AgentIds, stats \in PackageStatsInputs :
          UpdateAgentStats(a, stats.steps, stats.achievements, stats.skills)

(***************************************************************************)
(* _suggest_games as a function of the games and the identity              *)
(***************************************************************************)
MaxSuggestGames == 4
SuggestGameIds == <<"g1", "g2", "g3", "g4", "g5", "g6">>
SuggestStatusInputs == {"available", "offline"}
SuggestDomainInputs == {<<>>, <<"combat">>, <<"combat", "crafting">>}
\* combat at the 0.3 threshold, just above it, and crafting absent
SuggestSkillInputs ==
    {[combat |-> 3, crafting |-> 9], [combat |-> 4, crafting |-> 0], [combat |-> 10]}
SuggestVisitedInputs == {<<>>, <<"g1">>, <<"g1", "g2", "g3", "g4">>}

\* self.games.values() in insertion order
SuggestGamesInputs ==
    UNION {{[k \in 1..n |-> [id |-> SuggestGameIds[k], status |-> st[k],
                             skill_domains |-> dm[k]]] :
               st \in [1..n -> SuggestStatusInputs], dm \in [1..n -> SuggestDomainInputs]} :
           n \in 0..MaxSuggestGames}

\* lines 230-232: the domain is one of the agent's skills, at a level above 0.3
SkillHelpsAtThreshold(skills, domain) ==
    domain \in DOMAIN skills /\ skills[domain] * 10 >= 3 * Scale
SkillHelps(skills, domain) ==
    domain \in DOMAIN skills /\ skills[domain] * 10 > 3 * Scale

\* lines 229-234: the loop over game.skill_domains
RECURSIVE SkillScore(_, _)
SkillScore(domains, skills) ==
    IF domains = <<>> THEN 0
    ELSE (IF SkillHelps(skills, Head(domains)) THEN skills[Head(domains)] ELSE 0)
         + SkillScore(Tail(domains), skills)

RECURSIVE SkillReasons(_, _)
SkillReasons(domains, skills) ==
    IF domains = <<>> THEN <<>>
    ELSE (IF SkillHelps(skills, Head(domains)) THEN <<Head(domains)>> ELSE <<>>)
         \o SkillReasons(Tail(domains), skills)

\* lines 225-246: the entry computed for one available game (score in tenths)
Suggestion(game, skills, games_visited) ==
    LET unvisited == game.id \notin Range(games_visited)
    IN [game_id |-> game.id,
        score |-> SkillScore(game.skill_domains, skills)
                  + (IF unvisited THEN Scale \div 2 ELSE 0),
        reasons |-> SkillReasons(game.skill_domains, skills)
                    \o (IF unvisited THEN <<"unvisited">> ELSE <<>>)]

\* lines 221-246: the loop over the games
RECURSIVE Suggestions(_, _, _)
Suggestions(gs, skills, games_visited) ==
    IF gs = <<>> THEN <<>>
    ELSE LET game == Head(gs)
             entry == Suggestion(game, skills, games_visited)
         IN (IF game.status = "available" /\ entry.score > 0 THEN <<entry>> ELSE <<>>)
            \o Suggestions(Tail(gs), skills, games_visited)

\* list.sort(key=score, reverse=True), line 249: stable, equal scores keep their order
RECURSIVE InsertByScore(_, _)
InsertByScore(sorted, entry) ==
    IF sorted = <<>> THEN <<entry>>
    ELSE IF Head(sorted).score >= entry.score
         THEN <<Head(sorted)>> \o InsertByScore(Tail(sorted), entry)
         ELSE <<entry>> \o sorted

RECURSIVE SortByScore(_)
SortByScore(entries) ==
    IF entries = <<>> THEN <<>>
    ELSE InsertByScore(SortByScore(SubSeq(entries, 1, Len(entries) - 1)),
                       entries[Len(entries)])

\* NexusServer._suggest_games, lines 217-251
SuggestGames(gs, skills, games_visited) ==
    LET sorted == SortByScore(Suggestions(gs, skills, games_visited))
    IN SubSeq(sorted, 1, Min(3, Len(sorted)))

NoSuggestCall == [games |-> <<>>, skills |-> EmptyDict, games_visited |-> <<>>,
                  returned |-> FALSE, value |-> <<>>]

SuggestInit ==
    \E gs \in SuggestGamesInputs, sk \in SuggestSkillInputs, gv \in SuggestVisitedInputs :
        suggest_call = [games |-> gs, skills |-> sk, games_visited |-> gv,
                        returned |-> FALSE, value |-> <<>>]

ApplySuggestGames ==
    /\ ~suggest_call.returned
    /\ suggest_call.skills # EmptyDict
    /\ suggest_call' = [suggest_call EXCEPT
                          !.returned = TRUE,
                          !.value = SuggestGames(suggest_call.games, suggest_call.skills,
                                                 suggest_call.games_visited)]
    /\ UNCHANGED <<baseVars, hubVars, episode, http_last, avatars, avatar_last, roster_call, package, multi>>

(***************************************************************************)
(* MultiGameAgent (run_multiverse.py): run(), one loop iteration at a time, *)
(* and _play_game, one step of its while loop at a time                    *)
(***************************************************************************)
\* the games the Nexus may offer; self.adapters has a factory for two of them
MultiGames == GameIds \cup {OtherGame}
LocalAdapters == GameIds

\* an action name no adapter's action space has
UnknownAction == "fly"
GameActions == {"move_right"}

\* a reply of ollama.chat: the call failed, or its content, which holds a flat
\* JSON object or none; the object's "action" (None: the key is missing) and
\* the "game_id" of its params (None: missing)
Reply(llm, json, action, game_id) ==
    [llm |-> llm, json |-> json, action |-> action, game_id |-> game_id]
LlmError == Reply("error", FALSE, None, None)
NoReply == Reply("none", FALSE, None, None)

ChooseReplies ==
    {LlmError, Reply("ok", FALSE, None, None), Reply("ok", TRUE, "enter_game", None)}
    \cup {Reply("ok", TRUE, "enter_game", g) : g \in MultiGames}

PlayReplies ==
    {LlmError, Reply("ok", FALSE, None, None), Reply("ok", TRUE, None, None),
     Reply("ok", TRUE, UnknownAction, None), Reply("ok", TRUE, "exit_game", None)}
    \cup {Reply("ok", TRUE, a, None) : a \in GameActions}

\* generate, lines 70-95: the content, or the "wait" object after any exception
MultiGenerate(reply) ==
    IF reply.llm = "error" THEN Reply("ok", TRUE, "wait", None) ELSE reply

\* parse_action, lines 97-113: the Action's name and its params' game_id
MultiParseAction(content) ==
    IF content.json
    THEN [name |-> IF content.action = None THEN "noop" ELSE content.action,
          game_id |-> content.game_id]
    ELSE [name |-> "noop", game_id |-> None]

\* lines 170-171 and 277-278: self.parse_action(self.generate(...))
MultiDecide(reply) == MultiParseAction(MultiGenerate(reply))

\* history: the last decision, and whether its action was handed to adapter.act
Decision(reply, action, executed) ==
    [reply |-> reply, action |-> action, executed |-> executed]
NoDecision == Decision(NoReply, None, FALSE)

NoExit == [game |-> None, reason |-> None, steps |-> 0]

NoMulti ==
    [pc |-> "off", max_steps |-> 0, max_games |-> 0, total_steps |-> 0,
     games_played |-> 0, current_game |-> None, current_adapter |-> FALSE,
     session_steps |-> 0, steps |-> 0, budget |-> 0, open |-> <<>>,
     decision |-> NoDecision, iterated |-> FALSE,
     before |-> [total_steps |-> 0, games_played |-> 0], last_exit |-> NoExit]

\* run(max_steps, max_games) was called on a new MultiGameAgent
MultiInit ==
    \E max_steps \in 1..MaxMultiSteps, max_games \in 1..MaxMultiGames :
        multi = [NoMulti EXCEPT !.pc = "start", !.max_steps = max_steps,
                                !.max_games = max_games]

\* run, lines 122-131: register with the Nexus, or return when that fails
MultiRegister(ok) ==
    /\ multi.pc = "start"
    /\ multi' = [multi EXCEPT !.pc = IF ok THEN "loop" ELSE "returned"]
    /\ UNCHANGED <<baseVars, hubVars, episode, http_last, avatars, avatar_last, roster_call, package, suggest_call>>

\* line 133: the condition of run's while loop
MultiLooping ==
    /\ multi.total_steps < multi.max_steps
    /\ multi.games_played < multi.max_games

\* history: the totals at the start of the loop iteration being taken
IterationStarts(m) ==
    [m EXCEPT !.iterated = TRUE,
              !.before = [total_steps |-> m.total_steps, games_played |-> m.games_played]]

\* history: the games entered at the Nexus with no exit_game call since
RemoveFirst(seq, x) ==
    IF \E k \in 1..Len(seq) : seq[k] = x
    THEN LET k == CHOOSE j \in 1..Len(seq) : seq[j] = x /\ \A h \in 1..(j - 1) : seq[h] # x
         IN SubSeq(seq, 1, k - 1) \o SubSeq(seq, k + 1, Len(seq))
    ELSE seq

\* _enter_game, lines 181-203: outcome is what nexus.enter_game did
EnterGame(m, game_id, outcome) ==
    IF outcome # "success"
    THEN m
    ELSE LET entered == [m EXCEPT !.open = Append(@, game_id)]
         IN IF game_id \in LocalAdapters
            THEN [entered EXCEPT !.current_adapter = TRUE,
                                 !.current_game = game_id,
                                 !.session_steps = 0]
            ELSE entered

\* _exit_game, lines 280-323: the exit_game call is made whether or not it
\* raises; the cleanup follows
ExitGame(m, reason) ==
    IF m.current_game = None
    THEN m
    ELSE [m EXCEPT !.open = RemoveFirst(@, m.current_game),
                   !.last_exit = [game |-> m.current_game, reason |-> reason,
                                  steps |-> m.session_steps],
                   !.current_adapter = FALSE,
                   !.current_game = None]

\* run, lines 133-144 with _choose_game, lines 156-179: an iteration in the
\* Nexus; nexus.observe raising, or a reply that is not enter_game with a
\* game_id, leaves the loop
MultiChoose(observed, reply, outcome) ==
    /\ multi.pc = "loop"
    /\ MultiLooping
    /\ multi.current_game = None
    /\ LET m == IterationStarts(multi)
           action == MultiDecide(reply)
       IN multi' =
            IF ~observed
            THEN [m EXCEPT !.pc = "returned"]
            ELSE IF action.name = "enter_game" /\ action.game_id # None
            THEN [EnterGame(m, action.game_id, outcome) EXCEPT
                     !.games_played = @ + 1,
                     !.decision = Decision(reply, action.name, FALSE)]
            ELSE [m EXCEPT !.pc = "returned",
                           !.decision = Decision(reply, action.name, FALSE)]
    /\ UNCHANGED <<baseVars, hubVars, episode, http_last, avatars, avatar_last, roster_call, package, suggest_call>>

\* run, line 147 with _play_game, lines 205-213: an iteration inside a game
\* starts; current_adapter.observe() is outside the try of the loop, so its
\* exception (CrafterAdapter.observe before any reset: KeyError) leaves run()
MultiPlayStart(observed) ==
    /\ multi.pc = "loop"
    /\ MultiLooping
    /\ multi.current_game # None
    /\ LET m == IterationStarts(multi)
       IN multi' =
            IF ~m.current_adapter
            THEN m
            ELSE IF ~observed
            THEN [m EXCEPT !.pc = "raised"]
            ELSE [m EXCEPT !.pc = "play", !.steps = 0,
                           !.budget = m.max_steps - m.total_steps]
    /\ UNCHANGED <<baseVars, hubVars, episode, http_last, avatars, avatar_last, roster_call, package, suggest_call>>

\* _play_game returns steps to run, line 148
PlayReturns(m) == [m EXCEPT !.pc = "loop", !.total_steps = @ + m.steps]

\* _play_game, lines 215-254: one pass of the while loop. acted is what
\* current_adapter.act(action.name) does: "raise", "result" or "done" (the
\* adapters of self.adapters read action.name of the str they are handed, so
\* with them it is always "raise")
MultiPlayStep(reply, acted) ==
    /\ multi.pc = "play"
    /\ multi.steps < multi.budget
    /\ LET action == MultiDecide(reply)
           stepped == [multi EXCEPT !.steps = @ + 1, !.session_steps = multi.steps + 1,
                                    !.decision = Decision(reply, action.name, TRUE)]
       IN multi' =
            IF action.name = "exit_game"
            THEN PlayReturns(ExitGame([multi EXCEPT
                                          !.decision = Decision(reply, action.name, FALSE)],
                                      "voluntary"))
            ELSE IF acted = "raise"
            THEN PlayReturns([multi EXCEPT !.decision = Decision(reply, action.name, TRUE)])
            ELSE IF acted = "done"
            THEN PlayReturns(ExitGame(stepped, "game_over"))
            ELSE stepped
    /\ UNCHANGED <<baseVars, hubVars, episode, http_last, avatars, avatar_last, roster_call, package, suggest_call>>

\* _play_game, lines 215 and 256: the step budget is used up
MultiPlayBudget ==
    /\ multi.pc = "play"
    /\ multi.steps >= multi.budget
    /\ multi' = PlayReturns(multi)
    /\ UNCHANGED <<baseVars, hubVars, episode, http_last, avatars, avatar_last, roster_call, package, suggest_call>>

\* run, lines 133 and 150-154: the loop condition is false
MultiLoopExit ==
    /\ multi.pc = "loop"
    /\ ~MultiLooping
    /\ multi' = [multi EXCEPT !.pc = "returned"]
    /\ UNCHANGED <<baseVars, hubVars, episode, http_last, avatars, avatar_last, roster_call, package, suggest_call>>

MultiNext ==
    \/ \E ok \in BOOLEAN : MultiRegister(ok)
    \/ \E observed \in BOOLEAN, reply \in ChooseReplies,
          outcome \in {"success", "refused", "raised"} :
          MultiChoose(observed, reply, outcome)
    \/ \E observed \in BOOLEAN : MultiPlayStart(observed)
    \/ \E reply \in PlayReplies, acted \in {"raise", "result", "done"} :
          MultiPlayStep(reply, acted)
    \/ MultiPlayBudget
    \/ MultiLoopExit

LibInit ==
    /\ suggest_call = NoSuggestCall
    /\ multi = NoMulti
    /\ episode = NoEpisode
    /\ http_last = NoHttp
    /\ AvatarInit
    /\ roster_call = NoRosterCall
    /\ package = NoPackage

(***************************************************************************)
(* _calculate_bonuses as a function of its arguments                       *)
(***************************************************************************)
BonusGames == GameIds \cup {OtherGame}

\* the skills read for a game: any subset of the domains present, at any level
BonusSkillInputs(game_id) ==
    LET domains == {t.skill : t \in Range(BonusMaps[IF game_id \in DOMAIN BonusMaps
                                                    THEN game_id ELSE "crafter"])}
    IN UNION {[S -> 0..Scale] : S \in SUBSET domains}

NoBonusCall == [skills |-> EmptyDict, game_id |-> None, returned |-> FALSE,
                bonuses |-> EmptyDict]

BonusInit ==
    \E g \in BonusGames : \E sk \in BonusSkillInputs(g) :
        bonus_call = [skills |-> sk, game_id |-> g, returned |-> FALSE,
                      bonuses |-> EmptyDict]

ApplyCalculateBonuses ==
    /\ ~bonus_call.returned
    /\ bonus_call.game_id # None
    /\ bonus_call' = [bonus_call EXCEPT
                        !.returned = TRUE,
                        !.bonuses = CalculateBonuses(bonus_call.skills, bonus_call.game_id)]
    /\ UNCHANGED <<bridgeVars, hubVars, requestVars, adapterVars, parse_call, libVars>>

ExtInit ==
    /\ bonus_call = NoBonusCall /\ RequestInit /\ AdapterInit /\ parse_call = NoParseCall
    /\ LibInit

\* the bridge, the adapters and the pure calls at rest
BaseInit ==
    /\ BridgeInit
    /\ bonus_call = NoBonusCall /\ RequestInit /\ AdapterInit /\ parse_call = NoParseCall

BonusCalls ==
    /\ BridgeInit /\ HubInit /\ RequestInit /\ AdapterInit
    /\ parse_call = NoParseCall
    /\ LibInit
    /\ BonusInit

BonusNext == ApplyCalculateBonuses

BonusSpec == BonusCalls /\ [][BonusNext]_vars

(***************************************************************************)
(* Spec: CommandQueue used by concurrent threads.                          *)
(***************************************************************************)
SubmitRegister(c, type) == DoRegister(c, type) /\ UNCHANGED <<handler, hubVars, extVars>>
SubmitPut(c) == DoPut(c) /\ UNCHANGED <<handler, hubVars, extVars>>
SubmitWait(c) == DoWait(c) /\ UNCHANGED <<handler, hubVars, extVars>>
SubmitTakeResult(c) == DoTakeResult(c) /\ UNCHANGED <<handler, hubVars, extVars>>
SubmitTimeoutReturn(c) == DoTimeoutReturn(c) /\ UNCHANGED <<handler, hubVars, extVars>>
GetNextCommand == DoGetNextCommand /\ UNCHANGED <<handler, hubVars, extVars>>
SubmitResult(id, r) == DoSubmitResult(id, r) /\ UNCHANGED <<handler, hubVars, extVars>>

Init == BridgeInit /\ HubInit /\ ExtInit

Next ==
    \/ \E c \in Callers, type \in CmdTypes : SubmitRegister(c, type)
    \/ \E c \in Callers : SubmitPut(c)
    \/ \E c \in Callers : SubmitWait(c)
    \/ \E c \in Callers : SubmitTakeResult(c)
    \/ \E c \in Callers : SubmitTimeoutReturn(c)
    \/ GetNextCommand
    \/ \E id \in PostableIds, r \in GameResults : SubmitResult(id, r)

Spec == Init /\ [][Next]_vars

(***************************************************************************)
(* FairSpec: the threads running submit() are scheduled and every timeout  *)
(* expires, so each started submit() keeps taking its steps.               *)
(***************************************************************************)
FairSpec ==
    /\ Spec
    /\ \A c \in Callers :
        /\ WF_vars(SubmitPut(c))
        /\ WF_vars(SubmitWait(c))
        /\ WF_vars(SubmitTakeResult(c))
        /\ WF_vars(SubmitTimeoutReturn(c))

(***************************************************************************)
(* HttpSpec: CommandQueue behind BridgeHandler. BridgeServer.start() uses  *)
(* http.server.HTTPServer, whose serve_forever() handles one request at a  *)
(* time on one thread: handler is the request being handled (0: none).     *)
(***************************************************************************)
ServerIdle == handler = 0

\* do_POST, lines 131-155: /observe, /act, /reset call command_queue.submit()
HttpPostCommand(c, type) ==
    /\ ServerIdle
    /\ DoRegister(c, type)
    /\ handler' = c
    /\ UNCHANGED <<hubVars, extVars>>

HttpSubmitPut(c) == handler = c /\ DoPut(c) /\ UNCHANGED <<handler, hubVars, extVars>>
HttpSubmitWait(c) == handler = c /\ DoWait(c) /\ UNCHANGED <<handler, hubVars, extVars>>

\* submit() returns and do_POST sends the result: the server thread is free again
HttpSendResult(c) ==
    /\ handler = c
    /\ IF pc[c] = "signalled" THEN DoTakeResult(c) ELSE DoTimeoutReturn(c)
    /\ handler' = 0
    /\ UNCHANGED <<hubVars, extVars>>

\* do_GET, lines 96-102: /poll
HttpGetPoll == ServerIdle /\ DoGetNextCommand /\ UNCHANGED <<handler, hubVars, extVars>>

\* do_POST, lines 121-129: /result
HttpPostResult(id, r) == ServerIdle /\ DoSubmitResult(id, r) /\ UNCHANGED <<handler, hubVars, extVars>>

HttpNext ==
    \/ \E c \in Callers, type \in CmdTypes : HttpPostCommand(c, type)
    \/ \E c \in Callers : HttpSubmitPut(c)
    \/ \E c \in Callers : HttpSubmitWait(c)
    \/ \E c \in Callers : HttpSendResult(c)
    \/ HttpGetPoll
    \/ \E id \in PostableIds, r \in GameResults : HttpPostResult(id, r)

HttpSpec == Init /\ [][HttpNext]_vars

(***************************************************************************)
(* NexusSpec: the hub's operations. NexusServer.start() serves them from a *)
(* single HTTPServer thread, one request at a time.                        *)
(***************************************************************************)
NexusNext ==
    \/ \E g \in GameIds, st \in GameStatus : RegisterGame(g, st)
    \/ \E g \in GameIds : UnregisterGame(g)
    \/ \E a \in AgentIds, n \in AgentNames : RegisterAgent(a, n)
    \/ \E a \in AgentIds, g \in GameIds : TransitIn(a, g)
    \/ \E a \in AgentIds, g \in GameIds, why \in ExitReasons : TransitOut(a, g, why)
    \/ \E a \in AgentIds, stats \in StatsInputs :
          UpdateAgentStats(a, stats.steps, stats.achievements, stats.skills)
    \/ \E a \in AgentIds, g \in GameIds, why \in ExitReasons, stats \in ExitStatsInputs :
          TransitExit(a, g, why, stats)
    \/ Tick

NexusSpec == Init /\ [][NexusNext]_vars

\* the same hub behind NexusHandler, one statement at a time
NexusHttpSpec == Init /\ [][NexusHttpNext]_vars

\* adapter calls from a freshly constructed pair of adapters
AdapterSpec == Init /\ [][AdapterNext]_vars

\* one _parse_action call on each reply
ParseReplies ==
    /\ BridgeInit /\ HubInit /\ RequestInit /\ AdapterInit
    /\ bonus_call = NoBonusCall
    /\ LibInit
    /\ ParseInit

ParseNext == ApplyParseAction

ParseSpec == ParseReplies /\ [][ParseNext]_vars

\* the hub behind NexusHandler: registrations, entries, exits and lookups
NexusApiNext ==
    \/ \E a \in AgentIds, n \in AgentNames : RegisterAgent(a, n)
    \/ \E g \in GameIds : UnregisterGame(g)
    \/ \E a \in AgentIds, g \in GameIds : TransitIn(a, g)
    \/ \E g \in HttpGameInputs : HttpGetGame(g)
    \/ \E a \in AgentIds : HttpGetAgent(a)
    \/ \E a \in AgentIds : HttpGetNexus(a)
    \/ \E a \in AgentIds, g \in GameIds, stats \in HttpExitStatsInputs :
          HttpTransitExit(a, g, "voluntary", stats)

NexusApiSpec == Init /\ [][NexusApiNext]_vars

\* one run_episode call for each max_steps
EpisodeRuns ==
    /\ BaseInit /\ HubInit
    /\ http_last = NoHttp /\ AvatarInit /\ roster_call = NoRosterCall
    /\ package = NoPackage /\ suggest_call = NoSuggestCall /\ multi = NoMulti
    /\ EpisodeInit

\* the hub with a caller that keeps a TransitPackage
PackageSpec == Init /\ [][PackageNext]_vars

\* jack_in and jack_out calls on freshly created avatars
AvatarSpec == Init /\ [][AvatarNext]_vars

\* one can_create_new call on each roster
RosterCalls ==
    /\ BaseInit /\ HubInit
    /\ episode = NoEpisode /\ http_last = NoHttp /\ AvatarInit
    /\ package = NoPackage /\ suggest_call = NoSuggestCall /\ multi = NoMulti
    /\ RosterInit

RosterNext == ApplyCanCreateNew

RosterSpec == RosterCalls /\ [][RosterNext]_vars

\* one _suggest_games call on each list of games and each identity
SuggestCalls ==
    /\ BaseInit /\ HubInit
    /\ episode = NoEpisode /\ http_last = NoHttp /\ AvatarInit
    /\ roster_call = NoRosterCall /\ package = NoPackage /\ multi = NoMulti
    /\ SuggestInit

SuggestNext == ApplySuggestGames

\* one run() of a MultiGameAgent
MultiRuns ==
    /\ BaseInit /\ HubInit
    /\ episode = NoEpisode /\ http_last = NoHttp /\ AvatarInit
    /\ roster_call = NoRosterCall /\ package = NoPackage
    /\ suggest_call = NoSuggestCall
    /\ MultiInit

MultiSpec == MultiRuns /\ [][MultiNext]_vars

SuggestSpec == SuggestCalls /\ [][SuggestNext]_vars

EpisodeSpec == EpisodeRuns /\ [][EpisodeNext]_vars

(***************************************************************************)
(* Properties of the bridge command queue                                  *)
(***************************************************************************)
PostedBefore(d) == {posted[d.id][k] : k \in 1..d.nposted}

\* C1: a submit() whose wait was not ended by the timeout returns a result that
\* submit_result was given for its own id: while it is still waiting or woken the
\* stored result is one posted for its id and its Event is set, and the value it
\* returns is one of the results posted for its id before it returned (the result,
\* when there was one submit_result call), never an error value.
C1_DeliversPostedResult ==
    /\ \A c \in Callers :
        /\ (pc[c] = "waiting" /\ cmd_id[c] \in signalled) => event[c]
        /\ pc[c] = "signalled" =>
              /\ cmd_id[c] \in DOMAIN results
              /\ results[cmd_id[c]] \in Range(PostedFor(cmd_id[c]))
    /\ \A d \in delivered :
        d.value # TimeoutError =>
            /\ d.nposted > 0
            /\ d.value \in PostedBefore(d)
            /\ d.nposted = 1 => d.value = posted[d.id][1]

C1_Witness ==
    \E d \in delivered :
        /\ d.value \in GameResults
        /\ d.id \in Range(fetched)
        /\ \E c \in Callers : c # d.caller /\ InFlight(c)

\* C2: whenever submit_result found the handle of an id registered and set it,
\* the submit() call of that id returns the posted result and not the timeout error.
C2_SignalledGetsResult ==
    \A d \in delivered : d.id \in signalled => d.value # TimeoutError

\* C3: every submit() call has an id no other call has and returns exactly once,
\* at most one result is delivered per id, and a submit_result that arrives after
\* the delivery for its id reaches no caller.
C3_SingleFire ==
    /\ \A c1, c2 \in Callers :
        (c1 # c2 /\ InFlight(c1) /\ InFlight(c2)) => cmd_id[c1] # cmd_id[c2]
    /\ \A d1, d2 \in delivered : d1.id = d2.id => d1 = d2
    /\ \A d \in delivered, c \in Callers : InFlight(c) => cmd_id[c] # d.id
    /\ Cardinality(delivered) + Cardinality({c \in Callers : InFlight(c)})
         = uuid_next - 1

C3_Witness ==
    \E d \in delivered :
        /\ d.value \in GameResults
        /\ Len(PostedFor(d.id)) > d.nposted
        /\ \E c \in Callers : pc[c] = "waiting"

\* C4: submit() never hangs and never raises: every started submit() returns, a
\* call whose id was given no result returns the timeout error, and the handle of
\* a call that returned the timeout error is no longer in result_events.
C4_TimeoutReturned ==
    \A d \in delivered :
        /\ d.value # KeyErrorRaised
        /\ d.nposted = 0 => d.value = TimeoutError
        /\ d.value = TimeoutError => d.id \notin DOMAIN result_events

\* C4, with the scheduling of FairSpec: every started submit() returns, and
\* what it returns without a result is the timeout error, its handle removed.
C4_SubmitReturns ==
    /\ []C4_TimeoutReturned
    /\ \A c \in Callers : InFlight(c) ~> (pc[c] = "done")

C4_Witness ==
    \E d \in delivered :
        /\ d.value = TimeoutError
        /\ d.nposted = 0
        /\ d.id \notin Range(fetched)
        /\ pc[d.caller] = "done"

\* C5: submit_result for an id without a registered waiter is discarded: results
\* holds no entry for an id that has no handle in result_events, so it is empty
\* whenever no submit() is in flight.
C5_NoStaleResults ==
    /\ DOMAIN results \subseteq DOMAIN result_events
    /\ (\A c \in Callers : ~InFlight(c)) => DOMAIN results = {}

\* C6: while a POST /observe, /act or /reset is blocked in submit(), the bridge
\* server can still serve GET /poll.
C6_PollServedWhileBlocked ==
    \A c \in Callers : pc[c] = "waiting" => ENABLED HttpGetPoll

\* C7: get_next_command never blocks, returns None exactly when nothing is
\* pending, and hands out the commands in the order submit() enqueued them, each
\* at most once.
C7_FifoOnce ==
    /\ ENABLED GetNextCommand
    /\ (last_poll = NoCommand) <=> (poll_pending = 0)
    /\ last_poll # NoCommand => last_poll.id \in Range(fetched)
    /\ Len(fetched) <= Len(enqueued)
    /\ fetched = SubSeq(enqueued, 1, Len(fetched))
    /\ [k \in 1..Len(pending_commands) |-> pending_commands[k].id]
         = SubSeq(enqueued, Len(fetched) + 1, Len(enqueued))
    /\ \A j, k \in 1..Len(fetched) : j # k => fetched[j] # fetched[k]

\* two commands fetched in submission order, the later one completed first
C7_Witness ==
    /\ Len(fetched) = 2
    /\ \E d \in delivered : d.id = enqueued[2] /\ d.value \in GameResults
    /\ \E c \in Callers : InFlight(c) /\ cmd_id[c] = enqueued[1]

(***************************************************************************)
(* Properties of the Nexus hub                                             *)
(***************************************************************************)
HubOpDone(op) == n_ops' = n_ops + 1 /\ hub_last'.op = op

\* C8: register_agent for an id that is already registered returns the existing
\* identity and changes no hub state (name, total_steps, skills, achievements and
\* games_visited are kept); for a new id it creates an identity with total_steps 0
\* and every standard skill domain at 0.
C8_RegisterStep ==
    HubOpDone("register_agent") =>
        LET a == hub_last'.agent
        IN IF a \in DOMAIN agents
           THEN /\ UNCHANGED <<games, agents, active_sessions, sessions>>
                /\ hub_last'.flag
                /\ hub_last'.result = agents[a]
           ELSE /\ a \in DOMAIN agents'
                /\ hub_last'.result = agents'[a]
                /\ agents'[a].total_steps = 0
                /\ agents'[a].achievements = <<>>
                /\ agents'[a].games_visited = <<>>
                /\ DOMAIN agents'[a].skills = SKILL_DOMAINS
                /\ \A d \in SKILL_DOMAINS : agents'[a].skills[d] = 0
                /\ \A b \in DOMAIN agents : agents'[b] = agents[b]
                /\ UNCHANGED <<games, active_sessions, sessions>>

\* C8: every register_agent step is idempotent for a registered id and creates
\* a zeroed identity for a new one.
C8_RegisterIdempotent == [][C8_RegisterStep]_vars

\* a second register_agent after update_agent_stats(steps=50) reports total_steps 50
C8_Witness ==
    /\ hub_last.op = "register_agent"
    /\ hub_last.flag
    /\ hub_last.result.total_steps = 50
    /\ hub_last.result.achievements # <<>>

\* C9: every skill level of every registered agent lies in [0,1] whatever deltas
\* update_agent_stats was given, the standard domains are always present, and a
\* domain that was absent is created at 0 before its delta is applied and clamped.
C9_LevelsInRange ==
    \A a \in DOMAIN agents :
        /\ SKILL_DOMAINS \subseteq DOMAIN agents[a].skills
        /\ \A d \in DOMAIN agents[a].skills :
            agents[a].skills[d] >= 0 /\ agents[a].skills[d] <= Scale

C9_NewDomainStep ==
    \A a \in DOMAIN agents :
        \A d \in DOMAIN agents'[a].skills \ DOMAIN agents[a].skills :
            agents'[a].skills[d] \in {Min(Scale, Max(0, delta)) : delta \in SkillDeltas}

\* C9: all levels stay in [0,1] and a new domain starts from 0.
C9_SkillsClamped == []C9_LevelsInRange /\ [][C9_NewDomainStep]_vars

\* one level clamped at 1.0 from above, a created domain clamped at 0 from below
C9_Witness ==
    \E a \in DOMAIN agents :
        /\ agents[a].skills["resource_management"] = Scale
        /\ "stealth" \in DOMAIN agents[a].skills
        /\ agents[a].skills["stealth"] = 0

\* C10: a successful transit_in immediately followed by transit_out for the same
\* agent and game leaves the game's active_agents at its value before the
\* transit_in, leaves the agent without an active_sessions entry and returns a
\* TransitPackage whose origin_game is that game.
C10_RoundTrip ==
    (hub_last.op = "transit_out" /\ hub_last.flag) =>
        /\ hub_last.ok
        /\ hub_last.game \in DOMAIN games
        /\ games[hub_last.game].active_agents = hub_last.pre
        /\ hub_last.agent \notin DOMAIN active_sessions
        /\ hub_last.result.origin_game = hub_last.game
        /\ hub_last.result.agent_id = hub_last.agent

\* a round trip through a game that already had an agent counted
C10_Witness ==
    /\ hub_last.op = "transit_out"
    /\ hub_last.flag
    /\ hub_last.pre = 1
    /\ games[hub_last.game].active_agents = 1

\* C11: in every reachable hub state each game's active_agents equals the number
\* of agents whose active_sessions entry is that game; a second transit_in of an
\* agent without a transit_out in between is not counted twice.
SessionCount(game_id) ==
    Cardinality({a \in DOMAIN active_sessions : active_sessions[a] = game_id})

C11_CountMatchesSessions ==
    \A g \in DOMAIN games : games[g].active_agents = SessionCount(g)

\* C12: transit_in returns {success: false, error} without raising and leaves
\* sessions, active_sessions and every game's active_agents unchanged whenever the
\* game is not registered, its status is not available or the agent is not
\* registered; it succeeds exactly when all three preconditions hold.
C12_EntryStep ==
    HubOpDone("transit_in") =>
        LET a == hub_last'.agent
            g == hub_last'.game
            allowed == /\ g \in DOMAIN games
                       /\ games[g].status = "available"
                       /\ a \in DOMAIN agents
        IN /\ hub_last'.ok <=> allowed
           /\ allowed => hub_last'.result.kind = "session"
           /\ ~allowed =>
                /\ hub_last'.result.kind \in
                      {"Unknown game", "Game not available", "Unknown agent"}
                /\ UNCHANGED <<sessions, active_sessions, games, agents>>

C12_EntryValidated == [][C12_EntryStep]_vars

\* a registered agent with a session elsewhere is refused by a game in maintenance
C12_Witness ==
    /\ hub_last.op = "transit_in"
    /\ ~hub_last.ok
    /\ hub_last.result.kind = "Game not available"
    /\ hub_last.agent \in DOMAIN active_sessions
    /\ hub_last.game \in DOMAIN games
    /\ games[hub_last.game].status = "maintenance"

\* C14: transit_out for an agent id that is not registered raises an exception and
\* leaves agents, active_sessions, sessions and every game's active_agents
\* unchanged.
C14_UnknownExitStep ==
    (HubOpDone("transit_out") /\ hub_last'.agent \notin DOMAIN agents) =>
        /\ ~hub_last'.ok
        /\ hub_last'.result = [kind |-> "ValueError"]
        /\ UNCHANGED <<agents, active_sessions, sessions, games>>

C14_UnknownExitRaises == [][C14_UnknownExitStep]_vars

\* the exit of an unregistered agent from a game another agent is counted in
C14_Witness ==
    /\ hub_last.op = "transit_out"
    /\ ~hub_last.ok
    /\ hub_last.agent \notin DOMAIN agents
    /\ hub_last.game \in DOMAIN games
    /\ games[hub_last.game].active_agents = 1
    /\ SessionCount(hub_last.game) = 1

\* C15: an agent's total_steps never decreases across any sequence of hub
\* operations (register_agent, update_agent_stats, transit_in, transit_out,
\* POST /transit/exit with stats).
C15_StepsStep ==
    \A a \in DOMAIN agents :
        /\ a \in DOMAIN agents'
        /\ agents'[a].total_steps >= agents[a].total_steps

C15_StepsMonotone == [][C15_StepsStep]_vars

\* C16: update_agent_stats appends exactly one achievement per reported name, in
\* the reported order, each with game_origin equal to the agent's active_sessions
\* game, or "unknown" without an active session; achievements already in an
\* agent's log are never removed, reordered or changed.
C16_KeptStep ==
    \A a \in DOMAIN agents :
        /\ a \in DOMAIN agents'
        /\ Len(agents'[a].achievements) >= Len(agents[a].achievements)
        /\ SubSeq(agents'[a].achievements, 1, Len(agents[a].achievements))
             = agents[a].achievements

C16_AppendStep ==
    HubOpDone("update_agent_stats") =>
        \A a \in DOMAIN agents :
            LET old == agents[a].achievements
                new == agents'[a].achievements
                origin == IF a \in DOMAIN active_sessions
                          THEN active_sessions[a] ELSE "unknown"
            IN IF a # hub_last'.agent
               THEN new = old
               ELSE \E names \in AchievementInputs :
                       /\ Len(new) = Len(old) + Len(names)
                       /\ \A k \in 1..Len(names) :
                             new[Len(old) + k] = [name |-> names[k], game_origin |-> origin]

C17_BonusesByThreshold ==
    bonus_call.returned =>
        LET skills == bonus_call.skills
            g == bonus_call.game_id
            out == bonus_call.bonuses
        IN /\ g \notin {"crafter", "starbound"} => DOMAIN out = {}
           /\ g \in {"crafter", "starbound"} =>
                /\ DOMAIN out \subseteq {t.bonus : t \in Range(BonusMaps[g])}
                /\ \A t \in Range(BonusMaps[g]) :
                    /\ t.bonus \in DOMAIN out <=>
                          (t.skill \in DOMAIN skills /\ 10 * skills[t.skill] > Scale)
                    /\ t.bonus \in DOMAIN out =>
                          out[t.bonus] = Calc(t.bonus, skills[t.skill])
           /\ (/\ g = "crafter"
               /\ DOMAIN skills = {"resource_management", "survival"}
               /\ 10 * skills["resource_management"] = 5 * Scale
               /\ skills["survival"] = 0)
                 => out = [inventory_bonus |-> 1]
           /\ (g = "starbound" /\ DOMAIN skills = {"exploration"}
                               /\ skills["exploration"] = Scale)
                 => out = [scanner_range |-> 6]

\* the call of Scenario C has returned its single bonus
C17_Witness ==
    /\ bonus_call.returned
    /\ bonus_call.game_id = "crafter"
    /\ DOMAIN bonus_call.skills = {"resource_management", "survival"}
    /\ 10 * bonus_call.skills["resource_management"] = 5 * Scale
    /\ bonus_call.skills["survival"] = 0
    /\ bonus_call.bonuses = [inventory_bonus |-> 1]

\* C13: hub mutations appear atomic to concurrent operations: no request handled
\* at the same time finds a transit_in that has recorded its session but not yet
\* set active_sessions[agent] or incremented active_agents, and transit_in and
\* transit_out calls on the same game never lose an active_agents update.
C13_AtomicMutations ==
    /\ ~hub_seen.torn
    /\ \A g \in GameIds : games[g].active_agents = hub_expected[g]

\* a GET /games answered after an entry and an exit were both counted
C13_Witness ==
    /\ hub_seen.made
    /\ hub_seen.sessions = 1
    /\ hub_seen.counted = 0
    /\ \E a \in DOMAIN agents : agents[a].games_visited # <<>>
    /\ \A r \in HubRequests : hub_pc[r] = "idle"

\* C18: StarboundAdapter.observe(), act() and reset() raise an error whenever
\* their bridge request fails (connection refused or timeout); none returns the
\* cached observation, a fabricated empty observation or a normal result after a
\* failed request.
C18_TransportFailureRaises ==
    (adapter_last.adapter = "starbound" /\ adapter_last.failed) =>
        /\ adapter_last.outcome = "raised"
        /\ adapter_last.observation = NoObservation

\* C19: for every adapter and adapter state, act() with a name that is not in the
\* adapter's action space returns an ActionResult with success=false and a
\* message, does not raise and does not forward the action to the game (stated
\* here for the calls during which no bridge request fails).
C19_UnknownActionReturned ==
    (/\ adapter_last.op = "act"
     /\ ~adapter_last.failed
     /\ \/ adapter_last.adapter = "starbound"
           /\ adapter_last.action \notin StarboundActionNames
        \/ adapter_last.adapter = "crafter"
           /\ adapter_last.action \notin CrafterActionNames) =>
        /\ adapter_last.outcome = "returned"
        /\ ~adapter_last.success
        /\ adapter_last.message # None
        /\ ~adapter_last.forwarded

\* C20: for every LLM reply, _parse_action either returns an Action whose name is
\* one of the action names given to initialize() or raises an error; it never
\* returns a name outside that set and never substitutes a default or no-op
\* action: the name it returns is the one the reply gives.
NamedInReply(reply, name) ==
    IF reply.json # NoJson
    THEN reply.json.kind = "object" /\ reply.json.action = name
    ELSE \E i \in 1..Len(reply.text) :
            \A k \in 1..Len(Spelling(name)) :
                /\ i + k - 1 <= Len(reply.text)
                /\ Lower(reply.text)[i + k - 1] = Spelling(name)[k]

C20_ParsedOrRaised ==
    parse_call.returned =>
        \/ /\ parse_call.result.kind = "raise"
           /\ parse_call.result.error \in {"ValueError", "KeyError"}
        \/ /\ parse_call.result.kind = "action"
           /\ parse_call.result.name \in {"noop", "do"}
           /\ NamedInReply(parse_call.reply, parse_call.result.name)

\* a reply in words that holds no action name ends in an error
C20_Witness ==
    /\ parse_call.returned
    /\ parse_call.reply.json = NoJson
    /\ parse_call.reply.text = <<"n", "o", " ", "o", "p">>
    /\ parse_call.result.kind = "raise"

(***************************************************************************)
(* Properties of run_episode                                               *)
(***************************************************************************)
\* C21: if decide() or act() raises during an episode, run_episode still returns
\* the statistics accumulated up to the failing step: the call ends with a
\* returned value whose total_reward and achievements are the ones accumulated.
C21_StatsReturnedOnError ==
    episode.error # None =>
        /\ episode.pc = "returned"
        /\ episode.returned.total_reward = episode.total_reward
        /\ episode.returned.achievements = episode.achievements

(***************************************************************************)
(* Properties of NexusHandler's answers                                    *)
(***************************************************************************)
\* C22: a request for an unknown game (GET /games/{id}), an unknown agent
\* (GET /agents/{id}, GET /nexus/{id}) or an exit of an unregistered agent
\* (POST /transit/exit) is answered with a JSON {error} body and a non-2xx
\* status, and no exception leaves the handler.
C22_NotFoundAnswered ==
    http_last.unknown =>
        /\ ~http_last.raised
        /\ http_last.body = "error"
        /\ http_last.status \notin 200..299

(***************************************************************************)
(* Properties of Avatar and AvatarRoster                                   *)
(***************************************************************************)
\* C23: after any sequence of jack_in and jack_out calls, with any mode
\* argument, an avatar's bound_agent is non-null if and only if its state is
\* bound.
C23_BoundIffAgent ==
    \A v \in AvatarIds : (avatars[v].bound_agent # None) <=> (avatars[v].state = "bound")

\* C24: destroyed is terminal: a jack_in on an avatar whose state is destroyed
\* leaves it not bound and without a bound_agent.
C24_DestroyedNeverBound ==
    (avatar_last.op = "jack_in" /\ avatar_last.pre.state = "destroyed") =>
        /\ avatars[avatar_last.avatar].state # "bound"
        /\ avatars[avatar_last.avatar].bound_agent = None

\* C27: can_create_new() returns true exactly when the number of avatars of
\* the roster whose state is not destroyed is strictly less than max_avatars.
C27_CanCreateNewCountsLive ==
    roster_call.returned =>
        (roster_call.value <=>
            Cardinality({k \in DOMAIN roster_call.avatars :
                            roster_call.avatars[k] # "destroyed"})
                < roster_call.max_avatars)

\* a roster that is full only if its destroyed avatars are counted, and the
\* default max_avatars: a new avatar may be created
C27_Witness ==
    /\ roster_call.returned
    /\ roster_call.max_avatars = 3
    /\ roster_call.avatars = <<"bound", "destroyed", "dormant">>
    /\ roster_call.value

(***************************************************************************)
(* Frame and lifetime of bridge commands                                   *)
(***************************************************************************)
\* the id a submit_result step was called with
PostedId == CHOOSE i \in DOMAIN posted' : PostedFor(i) # posted'[i]

C25_StrayStep ==
    posted' # posted =>
        /\ pending_commands' = pending_commands
        /\ \A c \in Callers :
              (InFlight(c) /\ cmd_id[c] # PostedId) =>
                  /\ event'[c] = event[c]
                  /\ pc'[c] = pc[c]
                  /\ ret'[c] = ret[c]
                  /\ (cmd_id[c] \in DOMAIN result_events') = (cmd_id[c] \in DOMAIN result_events)
                  /\ DictGet(result_events', cmd_id[c], None) = DictGet(result_events, cmd_id[c], None)
                  /\ DictGet(results', cmd_id[c], None) = DictGet(results, cmd_id[c], None)

\* C25: submit_result(id1, r) does not wake a submit() waiting on another id2,
\* does not change the result stored for id2 (the value that call will return),
\* and leaves id2's handle and the pending commands as they were.
C25_StrayResultFrame == [][C25_StrayStep]_vars

\* a result was posted for an id while a call with another id is still waiting,
\* not woken
C25_Witness ==
    \E c \in Callers :
        /\ pc[c] = "waiting"
        /\ ~event[c]
        /\ cmd_id[c] \in DOMAIN result_events
        /\ \E i \in DOMAIN posted : i # cmd_id[c]

C28_PollStep ==
    fetched' # fetched =>
        ~\E d \in delivered : /\ d.id = fetched'[Len(fetched')]
                               /\ d.value = TimeoutError

\* C28: once submit() has returned the timeout error for a command that was
\* never polled, get_next_command never hands that command to the poller.
C28_TimedOutNeverPolled == [][C28_PollStep]_vars

(***************************************************************************)
(* The kept TransitPackage                                                 *)
(***************************************************************************)
\* C26: the TransitPackage returned by transit_out is a snapshot: whatever hub
\* operations follow on the same agent, its skills, games_visited, achievements
\* and total_steps read as they did when transit_out returned.
C26_PackageSnapshot ==
    package.held =>
        /\ package.total_steps = package.at_return.total_steps
        /\ \A f \in ContainerFields :
              ReadField(package.containers[f], f) = package.at_return[f]

\* the agent of the kept package has since gained steps, a skill, an achievement
\* and a visited game
C26_Witness ==
    /\ package.held
    /\ LET identity == agents[package.agent_id]
           kept == package.at_return
       IN /\ identity.total_steps # kept.total_steps
          /\ identity.skills # kept.skills
          /\ identity.achievements # kept.achievements
          /\ identity.games_visited # kept.games_visited

(***************************************************************************)
(* Game suggestions                                                        *)
(***************************************************************************)
\* the contributing terms of game k of the call: the positions of its
\* skill_domains with a level above 0.3, and the unvisited bonus
HelpingDomains(k) ==
    LET game == suggest_call.games[k]
        skills == suggest_call.skills
    IN {j \in DOMAIN game.skill_domains :
           /\ game.skill_domains[j] \in DOMAIN skills
           /\ skills[game.skill_domains[j]] * 10 > 3 * Scale}

Unvisited(k) == suggest_call.games[k].id \notin Range(suggest_call.games_visited)

RECURSIVE LevelSum(_, _)
LevelSum(k, positions) ==
    IF positions = {} THEN 0
    ELSE LET j == CHOOSE x \in positions : TRUE
         IN suggest_call.skills[suggest_call.games[k].skill_domains[j]]
            + LevelSum(k, positions \ {j})

ExpectedScore(k) == LevelSum(k, HelpingDomains(k)) + (IF Unvisited(k) THEN Scale \div 2 ELSE 0)
ExpectedReasons(k) == Cardinality(HelpingDomains(k)) + (IF Unvisited(k) THEN 1 ELSE 0)

AvailableGames ==
    {k \in DOMAIN suggest_call.games : suggest_call.games[k].status = "available"}
ScoredGames == {k \in AvailableGames : ExpectedScore(k) > 0}

\* the value of the call is the three highest-scoring of the games (positions)
\* in eligible, in descending score order, each with its score and reasons
TopThreeOf(eligible) ==
    LET v == suggest_call.value
        gs == suggest_call.games
    IN suggest_call.returned =>
         /\ Len(v) <= 3
         /\ \A i, j \in DOMAIN v : i < j => /\ v[i].score >= v[j].score
                                             /\ v[i].game_id # v[j].game_id
         /\ \A i \in DOMAIN v : \E k \in DOMAIN gs :
                /\ gs[k].id = v[i].game_id
                /\ k \in eligible
                /\ v[i].score = ExpectedScore(k)
                /\ Len(v[i].reasons) = ExpectedReasons(k)
         /\ \A k \in eligible :
                \/ \E i \in DOMAIN v : v[i].game_id = gs[k].id
                \/ Len(v) = 3 /\ \A i \in DOMAIN v : v[i].score >= ExpectedScore(k)

\* C29 (as stated): exactly the games with status available are scored, each
\* with the sum of the levels above 0.3 over its skill_domains plus 0.5 if it is
\* not in games_visited and one reason per term, and the result is the three
\* highest-scoring of these games in descending score order.
C29_TopThreeOfAvailable == TopThreeOf(AvailableGames)

\* C29 (amended): the same, of the available games whose score is greater than
\* 0: an available game that scores 0 is never suggested.
C29_TopThreeOfScored == TopThreeOf(ScoredGames)

\* four available games score above 0, one at the 0.3 threshold counts for the
\* unvisited bonus only, and the three best are returned in order
C29_Witness ==
    /\ suggest_call.returned
    /\ Len(suggest_call.games) = 4
    /\ ScoredGames = 1..4
    /\ suggest_call.skills = [combat |-> 3, crafting |-> 9]
    /\ Len(suggest_call.value) = 3
    /\ suggest_call.value[1].score > suggest_call.value[3].score
    /\ \E i \in 1..3 : Len(suggest_call.value[i].reasons) = 2

(***************************************************************************)
(* Observations made from an answer without game state                     *)
(***************************************************************************)
\* C30: when the bridge answers an observe request with an error value that
\* carries no game state, StarboundAdapter.observe() fails: it never returns an
\* Observation whose status, inventory and location are the default values.
C30_ErrorValueFails ==
    (adapter_last.adapter = "starbound" /\ adapter_last.op = "observe") =>
        adapter_last.observation.source # "defaults"


(***************************************************************************)
(* The woken submit() and duplicate results                                *)
(***************************************************************************)
\* C33: whenever submit()'s wait ended because its handle was set, the stored
\* result and the handle of that id are both still present when submit() takes
\* the lock; no call returns the "Result lost" fallback and no handle removal
\* fails, duplicates of submit_result and concurrent submits included.
C33_SignalledFindsResult ==
    /\ \A c \in Callers :
          pc[c] = "signalled" =>
              /\ cmd_id[c] \in DOMAIN results
              /\ cmd_id[c] \in DOMAIN result_events
    /\ \A d \in delivered : d.value \notin {ResultLost, KeyErrorRaised}

\* a call returned a game result that had been posted twice, while another
\* call was in flight
C33_Witness ==
    \E d \in delivered :
        /\ d.value \in GameResults
        /\ d.nposted >= 2
        /\ \E c \in Callers : c # d.caller /\ InFlight(c)

\* C34: when submit_result is called more than once for an id before its
\* submit() has returned, submit() returns the result of the first call.
C34_FirstResultWins ==
    \A d \in delivered :
        (d.value \in GameResults /\ d.nposted >= 1) => d.value = posted[d.id][1]


(***************************************************************************)
(* Session bookkeeping of the hub                                          *)
(***************************************************************************)
C35_ExitStep ==
    HubOpDone("transit_out") =>
        LET a == hub_last'.agent
            g == hub_last'.game
            in_g == a \in DOMAIN active_sessions /\ active_sessions[a] = g
            cleared == a \in DOMAIN active_sessions /\ a \notin DOMAIN active_sessions'
        IN /\ ~in_g =>
                \A x \in DOMAIN games :
                    /\ x \in DOMAIN games'
                    /\ games'[x].active_agents = games[x].active_agents
           /\ (cleared /\ active_sessions[a] \in DOMAIN games) =>
                games'[active_sessions[a]].active_agents
                    = games[active_sessions[a]].active_agents - 1

\* C35: transit_out(agent, g) lowers g's active_agents only when the agent's
\* active session is in g; for an agent without an active session, or with one in
\* another game, every game's active_agents is unchanged, and an active_sessions
\* entry is never cleared without the count of its game being decremented.
C35_ExitCountsOwnSession == [][C35_ExitStep]_vars

C36_RegistryStep ==
    (HubOpDone("register_game") \/ HubOpDone("unregister_game")) =>
        /\ \A a \in DOMAIN active_sessions' : active_sessions'[a] \in DOMAIN games'
        /\ LET g == hub_last'.game
           IN (hub_last'.op = "register_game" /\ g \in DOMAIN games
                  /\ games[g].active_agents > 0) =>
                 games'[g].active_agents = games[g].active_agents

\* C36: after register_game or unregister_game every active_sessions value is the
\* id of a registered game, and registering an id that is already registered does
\* not reset the active_agents of a game that still has agents in it.
C36_RegistryKeepsSessions == [][C36_RegistryStep]_vars

C37_EntryStep ==
    (HubOpDone("transit_in") /\ hub_last'.ok) =>
        /\ hub_last'.result.session_id \notin DOMAIN sessions
        /\ Cardinality(DOMAIN sessions') = Cardinality(DOMAIN sessions) + 1

\* C37: every successful transit_in adds a record to sessions under an id no
\* earlier record has, so the number of records grows by one with each successful
\* call, also when an agent enters the same game twice within one clock second.
C37_SessionIdsDistinct == [][C37_EntryStep]_vars


(***************************************************************************)
(* Order of the steps of POST /transit/exit                                *)
(***************************************************************************)
C38_ExitStep ==
    (HubOpDone("transit_exit") /\ hub_last'.ok /\ http_last'.route = "POST /transit/exit") =>
        LET a == hub_last'.agent
            stats == http_last'.stats
            old == agents[a]
            pkg == hub_last'.result
            origin == IF a \in DOMAIN active_sessions THEN active_sessions[a] ELSE "unknown"
            n == Len(old.achievements)
        IN /\ pkg.total_steps = old.total_steps + stats.steps
           /\ \A d \in DOMAIN stats.skills :
                 pkg.skills[d] = Min(Scale, Max(0, old.skills[d] + stats.skills[d]))
           /\ Len(pkg.achievements) = n + Len(stats.achievements)
           /\ \A k \in 1..Len(stats.achievements) :
                 pkg.achievements[n + k]
                     = [name |-> stats.achievements[k], game_origin |-> origin]
           /\ agents'[a].achievements = pkg.achievements
           /\ a \notin DOMAIN active_sessions'

\* C38: POST /transit/exit applies the reported stats before the session is
\* cleared and before the package is built: the reported achievements are
\* recorded with game_origin equal to the agent's active game, and the returned
\* transit_package carries the reported steps and skill updates.
C38_StatsBeforeExit == [][C38_ExitStep]_vars

\* an agent inside crafter left it reporting steps, two achievements and a
\* skill gain
C38_Witness ==
    /\ hub_last.op = "transit_exit"
    /\ hub_last.ok
    /\ http_last.route = "POST /transit/exit"
    /\ http_last.stats.skills # EmptyDict
    /\ hub_last.result.total_steps = 50
    /\ hub_last.result.skills["crafting"] = 4
    /\ Len(hub_last.result.achievements) = 2
    /\ hub_last.result.achievements[2] = [name |-> "place_table", game_origin |-> "crafter"]
    /\ hub_last.agent \notin DOMAIN active_sessions


(***************************************************************************)
(* Order of the calls of run_episode                                       *)
(***************************************************************************)
\* the positions of the calls of fns in the call log
CallsOf(fns) == {k \in 1..Len(episode.calls) : episode.calls[k].fn \in fns}

\* C32: run_episode calls agent.initialize exactly once, before the first decide;
\* every step is decide, then act on the decided action, then reflect on that
\* act's result; the decide of step k+1 receives the observation act returned at
\* step k (the reset observation at step 0); no decide or act follows a result
\* with done = true or the max_steps-th step.
C32_EpisodeOrder ==
    LET calls == episode.calls
        resets == CallsOf({"adapter.reset"})
    IN /\ episode.pc # "off" =>
            /\ Cardinality(CallsOf({"initialize"})) = 1
            /\ Cardinality(resets) = 1
            /\ \A k \in CallsOf({"decide"}) : \A j \in CallsOf({"initialize"}) : j < k
       /\ \A k \in CallsOf({"decide"}) :
            \/ /\ \A j \in CallsOf({"decide"}) : k <= j
               /\ \A r \in resets : r < k /\ calls[k].observation = calls[r].observation
            \/ /\ k > 3
               /\ calls[k - 1].fn = "reflect"
               /\ calls[k - 2].fn = "act"
               /\ calls[k - 3].fn = "decide"
               /\ calls[k].observation = calls[k - 2].result.observation
       /\ \A k \in CallsOf({"act"}) :
            /\ k > 1
            /\ calls[k - 1].fn = "decide"
            /\ ~calls[k - 1].raised
            /\ calls[k].action = calls[k - 1].action
            /\ (~calls[k].raised) =>
                  /\ k < Len(calls)
                  /\ calls[k + 1].fn = "reflect"
       /\ \A k \in CallsOf({"reflect"}) :
            /\ k > 1
            /\ calls[k - 1].fn = "act"
            /\ ~calls[k - 1].raised
            /\ calls[k].result = calls[k - 1].result
       /\ \A k \in CallsOf({"act"}) :
            calls[k].result.done => \A j \in CallsOf({"decide", "act"}) : j <= k
       /\ Cardinality(CallsOf({"decide"})) <= episode.max_steps
       /\ Cardinality(CallsOf({"act"})) <= episode.max_steps

\* an episode of three allowed steps that ended at the second, whose result was
\* done
C32_Witness ==
    /\ episode.pc = "returned"
    /\ episode.max_steps = 3
    /\ Cardinality(CallsOf({"decide"})) = 2
    /\ Cardinality(CallsOf({"reflect"})) = 2
    /\ episode.calls[Len(episode.calls)].result.done
    /\ episode.calls[Len(episode.calls)].result.observation = 2


====
